---- MODULE Spec2Model ----
(***************************************************************************)
(* A model of mmpm's catalog synchronisation and upgrade reconciliation:   *)
(* the package database file and its backup (load_packages), the scan of   *)
(* the modules directory (get_installed_packages), the available-upgrades  *)
(* file (get_available_upgrades, check_for_package_updates,                *)
(* upgrade_available) and the installation batch (install_packages).       *)
(*                                                                         *)
(* Text whose whitespace matters (the output of git, a repository URL) is  *)
(* a sequence of tokens; the tokens " " and "\n" are whitespace.  A Python *)
(* dict is a sequence of entries, so that key order is part of the value.  *)
(***************************************************************************)
EXTENDS Integers, Sequences, FiniteSets, TLC

VARIABLES
    db_file,      \* MAGICMIRROR_3RD_PARTY_PACKAGES_DB_FILE
    bak_file,     \* the same path with the suffix .bak
    ext_file,     \* MMPM_EXTERNAL_PACKAGES_FILE
    load_call,    \* the last call of load_packages: its inputs and its outcome
    scan_in,      \* get_installed_packages: the catalog and the modules directory
    scan_out,     \* get_installed_packages: the outcome of the last call
    upgrades_file,\* MMPM_AVAILABLE_UPGRADES_FILE
    env_root,     \* MMPM_MAGICMIRROR_ROOT of the running invocation
    upd,          \* check_for_package_updates: the last call
    upg,          \* upgrade_available: the invocation in progress
    lookup,       \* get_available_upgrades: the last call on its own
    modules_dir,  \* install_packages: the directories of <root>/modules
    inst,         \* install_packages: the invocation in progress
    resolve,      \* get_installation_candidates: the arguments and the result
    rem,          \* remove_packages: the last call and the modules directory after it
    ext_call,     \* add_external_package, remove_external_package_source: the calls
    roots,        \* the operations run on the ledger and the roots seen in it
    snap,         \* calc_snapshot_timestamps, should_refresh_packages: the last computation
    dep_call,     \* install_dependencies: the directory as found and what the call did
    race,         \* two invocations on one ledger file: what each read and wrote
    bridge,       \* the websocket bridge: the operation, the connection, the event received
    diff_call,    \* get_difference_of_packages: the two mappings and the outcome
    legacy_file   \* ~/.config/mmpm/mmpm-external-sources.json, the legacy external sources

vars == <<db_file, bak_file, ext_file, load_call, scan_in, scan_out,
          upgrades_file, env_root, upd, upg, lookup, modules_dir, inst, resolve, rem, ext_call, roots, snap, dep_call, race, bridge, diff_call, legacy_file>>

catalogVars == <<db_file, bak_file, ext_file, load_call>>
scanVars    == <<scan_in, scan_out>>
ledgerVars  == <<upgrades_file, env_root, upd, upg, lookup>>
installVars == <<modules_dir, inst, resolve>>

(***************************************************************************)
(* Bounds of the model.                                                    *)
(***************************************************************************)
MaxPkgsPerCategory == 1   \* packages of one category of a scraped catalog
MaxDirs == 2              \* directories of the modules directory in a scan
MaxPending == 3           \* pending packages of a root in the upgrades file
MaxCandidates == 2        \* installation candidates of one batch
MaxRequests == 2          \* titles given to one install command
MaxInstalledPerCategory == 2 \* installed packages of one category in a removal
MaxRemovals == 2          \* titles given to one remove command
MaxExternal == 2          \* entries of the external-packages file as found
MaxRootPackages == 1      \* packages of a root in a sequence of ledger operations
MaxOps == 3               \* ledger operations run one after the other

(***************************************************************************)
(* Sequences.                                                              *)
(***************************************************************************)
Range(s) == {s[i] : i \in DOMAIN s}

SeqsUpTo(S, n) == UNION {[1..k -> S] : k \in 0..n}

NoRepeat(s) == \A i, j \in DOMAIN s : i # j => s[i] # s[j]

RECURSIVE SelectIdx(_, _, _)
\* the subsequence of s at the indices of keep, in order
SelectIdx(s, keep, i) ==
    IF i > Len(s) THEN <<>>
    ELSE (IF i \in keep THEN <<s[i]>> ELSE <<>>) \o SelectIdx(s, keep, i + 1)

\* list.remove(x): the list without its first element equal to x
ListRemove(s, x) ==
    IF \E i \in DOMAIN s : s[i] = x
    THEN LET k == CHOOSE i \in DOMAIN s : s[i] = x /\ \A j \in 1..(i - 1) : s[j] # x
         IN  SelectIdx(s, DOMAIN s \ {k}, 1)
    ELSE s

(***************************************************************************)
(* Text.                                                                   *)
(***************************************************************************)
\* A text is the sequence of its tokens; a character that str.isspace() holds for is
\* a token of its own.  The characters without an escape are named by their code.
Whitespace ==
    {" ", "\t", "\n", "\r", "\f", "\\x0b", "\\x1c", "\\x1d", "\\x1e", "\\x1f",
     "\\x85", "\\xa0",
     "\\u1680", "\\u2000", "\\u2001", "\\u2002", "\\u2003", "\\u2004", "\\u2005",
     "\\u2006", "\\u2007", "\\u2008", "\\u2009", "\\u200a", "\\u2028", "\\u2029",
     "\\u202f", "\\u205f", "\\u3000"}

RECURSIVE LStrip(_)
LStrip(t) == IF t # <<>> /\ Head(t) \in Whitespace THEN LStrip(Tail(t)) ELSE t

RECURSIVE RStrip(_)
RStrip(t) ==
    IF t # <<>> /\ t[Len(t)] \in Whitespace THEN RStrip(SubSeq(t, 1, Len(t) - 1)) ELSE t

\* str.strip()
Strip(t) == RStrip(LStrip(t))

(***************************************************************************)
(* Packages (mmpm.models.MagicMirrorPackage) and their persisted form.     *)
(***************************************************************************)
\* A path is the sequence of its components; the empty path is the string ''.
NoPath == <<>>

\* os.path.join(base, name) for a relative name without separators
PathJoin(base, name) == base \o <<name>>

\* os.path.basename(path)
PathBasename(path) == IF path = <<>> THEN "" ELSE path[Len(path)]

MagicMirrorPackage(title, author, repository, description, directory) ==
    [title |-> title, author |-> author, description |-> description,
     repository |-> repository, directory |-> directory]

\* the JSON object written for a package: its keys in order
serialize(pkg) ==
    <<[key |-> "title", val |-> pkg.title],
      [key |-> "author", val |-> pkg.author],
      [key |-> "description", val |-> pkg.description],
      [key |-> "repository", val |-> pkg.repository],
      [key |-> "directory", val |-> pkg.directory]>>

serialize_full(pkg) ==
    <<[key |-> "title", val |-> pkg.title],
      [key |-> "author", val |-> pkg.author],
      [key |-> "description", val |-> pkg.description],
      [key |-> "repository", val |-> pkg.repository],
      [key |-> "directory", val |-> pkg.directory]>>

(***************************************************************************)
(* Dicts (JSON objects), in insertion order.                               *)
(***************************************************************************)
Keys(d) == [i \in DOMAIN d |-> d[i].key]

HasKey(d, k) == \E i \in DOMAIN d : d[i].key = k

Get(d, k) == d[CHOOSE i \in DOMAIN d : d[i].key = k].val

\* d[k] = v: an existing key keeps its place, a new key goes last
Put(d, k, v) ==
    IF HasKey(d, k)
    THEN [i \in DOMAIN d |-> IF d[i].key = k THEN [key |-> k, val |-> v] ELSE d[i]]
    ELSE Append(d, [key |-> k, val |-> v])

RECURSIVE Update(_, _)
\* dict.update(other)
Update(d, other) ==
    IF other = <<>> THEN d
    ELSE Update(Put(d, Head(other).key, Head(other).val), Tail(other))

MapValues(d, F(_)) == [i \in DOMAIN d |-> [key |-> d[i].key, val |-> F(d[i].val)]]

\* MagicMirrorPackage(**pkg): the object built from the keys of a JSON object
FromDict(d) ==
    MagicMirrorPackage(Get(d, "title"), Get(d, "author"), Get(d, "repository"),
                       Get(d, "description"), Get(d, "directory"))

list_of_dict_to_list_of_magicmirror_packages(list_of_dict) ==
    [i \in DOMAIN list_of_dict |-> FromDict(list_of_dict[i])]

(***************************************************************************)
(* Files.  A file is absent, zero-length, a JSON document, or text that    *)
(* does not parse as JSON.                                                 *)
(***************************************************************************)
Absent == [kind |-> "absent", doc |-> <<>>]
Empty == [kind |-> "empty", doc |-> <<>>]
Malformed == [kind |-> "malformed", doc |-> <<>>]
Json(doc) == [kind |-> "json", doc |-> doc]

\* os.path.exists(f) and bool(os.stat(f).st_size)
ExistsNonEmpty(f) == f.kind \in {"json", "malformed"}

(***************************************************************************)
(* The universe of the catalog checks.                                     *)
(***************************************************************************)
EXTERNAL_PACKAGES == "External Packages"

Categories == {"Clocks", "Weather"}

Pool ==
    {MagicMirrorPackage("Foo", "ann", <<"https://x/foo">>, "a clock", NoPath),
     MagicMirrorPackage("Bar", "bob", <<"https://x/bar">>, "a forecast", NoPath)}

PackageLists == {s \in SeqsUpTo(Pool, MaxPkgsPerCategory) : s # <<>> /\ NoRepeat(s)}

\* what a scrape can yield: every category it lists holds at least one package
Scrapes ==
    {<<>>}
    \cup {<<[key |-> c, val |-> l]>> : c \in Categories, l \in PackageLists}
    \cup UNION {{<<[key |-> c1, val |-> l1], [key |-> c2, val |-> l2]>> :
                    c2 \in Categories \ {c1}, l1 \in PackageLists, l2 \in PackageLists} :
                c1 \in Categories}

NetError == [kind |-> "neterror", catalog |-> <<>>]
Page(c) == [kind |-> "page", catalog |-> c]

\* the outcomes of opening and scraping the wiki page
NetOutcomes == {NetError} \cup {Page(c) : c \in Scrapes}

ExtPkg == MagicMirrorPackage("Mine", "me", <<"https://x/mine">>, "my own", NoPath)

OtherExtPkg == MagicMirrorPackage("Yours", "you", <<"https://x/yours">>, "your own", NoPath)

ExtFiles ==
    {Absent, Empty, Malformed,
     Json(<<[key |-> EXTERNAL_PACKAGES, val |-> <<serialize(ExtPkg)>>]>>),
     Json(<<[key |-> EXTERNAL_PACKAGES,
             val |-> <<serialize(OtherExtPkg), serialize(ExtPkg)>>]>>)}

(***************************************************************************)
(* CatalogStore: load_packages and what it calls.                          *)
(***************************************************************************)
\* json.dump(packages, db, default=lambda pkg: pkg.serialize())
DumpCatalog(packages) ==
    LET ser(l) == [i \in DOMAIN l |-> serialize(l[i])] IN Json(MapValues(packages, ser))

\* json.load(db), then every category's list converted to packages; text that is
\* not JSON raises JSONDecodeError, which nothing here catches
ParseCatalog(f) ==
    IF f.kind = "json"
    THEN [raised |-> FALSE,
          packages |-> MapValues(f.doc, list_of_dict_to_list_of_magicmirror_packages)]
    ELSE [raised |-> TRUE, packages |-> <<>>]

\* urlopen raising HTTPError or URLError ends in fatal_msg, which exits
retrieve_packages(net) ==
    IF net.kind = "neterror"
    THEN [exited |-> TRUE, packages |-> <<>>]
    ELSE [exited |-> FALSE, packages |-> net.catalog]

load_external_packages(ext) ==
    LET ok == ext.kind = "json" /\ HasKey(ext.doc, EXTERNAL_PACKAGES)
        external_packages ==
            IF ok
            THEN list_of_dict_to_list_of_magicmirror_packages(Get(ext.doc, EXTERNAL_PACKAGES))
            ELSE <<>>
    IN  [warned |-> ~ok,
         packages |-> <<[key |-> EXTERNAL_PACKAGES, val |-> external_packages]>>]

\* a load that leaves the .bak file alone
BackupNever(db_exists, db, bak) == bak

\* the copy to .bak sits before the refresh and outside it
BackupOnLoad(db_exists, db, bak) == IF db_exists THEN db ELSE bak

\* a load that always goes to the network
FetchAlways(force_refresh, db_exists) == TRUE

\* if the database has expired, or doesn't exist, get a new one
ShouldFetch(force_refresh, db_exists) == force_refresh \/ ~db_exists

\* a refresh that saves whatever the fetch brought, packages or none
SnapshotAlways(refresh, packages, db) ==
    IF refresh THEN DumpCatalog(packages) ELSE db

\* the new database is saved only when the fetch brought packages
SnapshotAfterFetch(refresh, packages, db) ==
    IF refresh /\ packages # <<>> THEN DumpCatalog(packages) ELSE db

load_packages(force_refresh, db, bak, ext, net) ==
    LET db_exists == ExistsNonEmpty(db)
        bak1 == BackupOnLoad(db_exists, db, bak)
        refresh == ShouldFetch(force_refresh, db_exists)
        fetch == IF refresh THEN retrieve_packages(net)
                 ELSE [exited |-> FALSE, packages |-> <<>>]
        packages1 == fetch.packages
        db1 == SnapshotAfterFetch(refresh, packages1, db)
        parsed == IF packages1 = <<>> /\ db_exists THEN ParseCatalog(db1)
                  ELSE [raised |-> FALSE, packages |-> packages1]
        packages2 == parsed.packages
        ext_loaded == load_external_packages(ext)
        packages3 == IF packages2 # <<>> /\ ExistsNonEmpty(ext)
                     THEN Update(packages2, ext_loaded.packages)
                     ELSE packages2
    IN  IF fetch.exited
        THEN [db |-> db, bak |-> bak1, exited |-> TRUE, raised |-> FALSE,
              fetched |-> TRUE, reported |-> TRUE, packages |-> <<>>]
        ELSE IF parsed.raised
        THEN [db |-> db1, bak |-> bak1, exited |-> FALSE, raised |-> TRUE,
              fetched |-> refresh, reported |-> refresh, packages |-> <<>>]
        ELSE [db |-> db1, bak |-> bak1, exited |-> FALSE, raised |-> FALSE,
              fetched |-> refresh, reported |-> refresh /\ packages1 = <<>>,
              packages |-> packages3]

NoLoad ==
    [op |-> "none", force_refresh |-> FALSE, net |-> NetError,
     pre_db |-> Absent, pre_bak |-> Absent, exited |-> FALSE, raised |-> FALSE,
     fetched |-> FALSE, reported |-> FALSE, packages |-> <<>>]

\* an older snapshot, as an earlier refresh leaves it in the .bak file
OlderCatalog ==
    <<[key |-> "Weather",
       val |-> <<MagicMirrorPackage("Old", "eve", <<"https://x/old">>, "retired", NoPath)>>]>>

\* The files as earlier invocations can have left them: no database yet or one of
\* zero length, or the database of an earlier refresh
SnapshotFiles == {Absent, Empty} \cup {DumpCatalog(c) : c \in Scrapes \ {<<>>}}

\* no backup yet, or the backup of an older database
BackupFiles == {Absent, DumpCatalog(OlderCatalog)}

\* one invocation that loads the database
LoadPackages ==
    /\ load_call.op = "none"
    /\ \E force_refresh \in BOOLEAN, net \in NetOutcomes :
        LET r == load_packages(force_refresh, db_file, bak_file, ext_file, net) IN
        /\ db_file' = r.db
        /\ bak_file' = r.bak
        /\ load_call' = [op |-> "load", force_refresh |-> force_refresh, net |-> net,
                         pre_db |-> db_file, pre_bak |-> bak_file,
                         exited |-> r.exited, raised |-> r.raised,
                         fetched |-> r.fetched,
                         reported |-> r.reported, packages |-> r.packages]
        /\ UNCHANGED ext_file

(***************************************************************************)
(* InstalledResolver: get_installed_packages.                              *)
(***************************************************************************)
Roots == {"/home/pi/MagicMirror", "/opt/mirror"}

\* os.path.join(MMPM_MAGICMIRROR_ROOT, 'modules')
ModulesDirOf(root) == PathJoin(<<root>>, "modules")

\* run_cmd: the exit code and the two output streams of a finished process
Cmd(code, stdout, stderr) == [code |-> code, stdout |-> stdout, stderr |-> stderr]

\* basename <url> .git, for the URLs of the model
BasenameOfUrl(url) ==
    CASE url = <<"https://x/foo">> -> "foo"
      [] url = <<"https://x/bar">> -> "bar"
      [] url = <<"https://x/mine">> -> "mine"
      [] url = <<"https://x/a">> -> "a"
      [] url = <<"https://x/b">> -> "b"
      [] url = <<"https://x/c">> -> "c"
      [] url = <<"https://x/d">> -> "d"
      [] url = <<"https://x/e">> -> "e"
      [] OTHER -> "other"

\* mmpm.utils.get_existing_package_directories: the names of the directories
get_existing_package_directories(entries) ==
    LET dirs == {i \in DOMAIN entries : entries[i].is_dir}
    IN  [i \in DOMAIN SelectIdx(entries, dirs, 1) |-> SelectIdx(entries, dirs, 1)[i].name]

EntryNamed(entries, name) == entries[CHOOSE i \in DOMAIN entries : entries[i].name = name]

RECURSIVE PackagesFound(_, _, _)
\* the loop over package_dirs: one package per directory with a .git entry whose
\* remote.origin.url could be read
PackagesFound(entries, package_dirs, modules) ==
    IF package_dirs = <<>> THEN <<>>
    ELSE LET e == EntryNamed(entries, Head(package_dirs))
             rest == PackagesFound(entries, Tail(package_dirs), modules)
         IN  IF ~e.has_git THEN rest
             ELSE IF e.remote.code # 0 THEN rest
             ELSE <<MagicMirrorPackage(BasenameOfUrl(Strip(e.remote.stdout)), "",
                                       Strip(e.remote.stdout), "",
                                       PathJoin(modules, e.name))>> \o rest

\* the found packages whose title is that of package
MatchesByTitle(package, found) ==
    SelectIdx(found, {i \in DOMAIN found : package.title = found[i].title}, 1)

\* the found packages whose repository is that of package, in the order found
MatchesOf(package, found) ==
    SelectIdx(found, {i \in DOMAIN found : package.repository = found[i].repository}, 1)

\* package.directory after the inner loop: that of the last match
Located(package, found) ==
    LET m == MatchesOf(package, found)
    IN  IF m = <<>> THEN package ELSE [package EXCEPT !.directory = m[Len(m)].directory]

RECURSIVE InstalledOf(_, _)
\* one category: a package is appended once per matching found package, and every
\* append is the same object
InstalledOf(package_names, found) ==
    IF package_names = <<>> THEN <<>>
    ELSE [i \in 1..Len(MatchesOf(Head(package_names), found)) |->
              Located(Head(package_names), found)]
         \o InstalledOf(Tail(package_names), found)

get_installed_packages(packages, entries, root) ==
    LET package_dirs == get_existing_package_directories(entries)
        found == PackagesFound(entries, package_dirs, ModulesDirOf(root))
        installedOf(l) == InstalledOf(l, found)
        locatedOf(l) == [i \in DOMAIN l |-> Located(l[i], found)]
    IN  IF package_dirs = <<>>
        THEN [installed |-> <<>>, packages |-> packages, env_error |-> TRUE]
        ELSE [installed |-> MapValues(packages, installedOf),
              packages |-> MapValues(packages, locatedOf),
              env_error |-> FALSE]

(***************************************************************************)
(* The universe of the scan checks.                                        *)
(***************************************************************************)
ScanRoot == "/home/pi/MagicMirror"

Urls == {<<"https://x/foo">>, <<"https://x/bar">>, <<"https://x/other">>}

DirNames == {"foo", "bar", "misc"}

\* git config --get remote.origin.url: the URL and a newline, the URL with other
\* whitespace around it (a tab, U+3000, U+2028, a carriage return), or exit code 1
RemoteOutcomes ==
    {Cmd(0, u \o <<"\n">>, <<>>) : u \in Urls}
    \cup {Cmd(0, <<"\t", "\\u3000", "https://x/foo", "\\u2028", "\r", "\n">>, <<>>),
          Cmd(1, <<>>, <<>>)}

NoRemote == Cmd(1, <<>>, <<>>)

DirEntries ==
    {[name |-> n, is_dir |-> TRUE, has_git |-> TRUE, remote |-> r] :
        n \in DirNames, r \in RemoteOutcomes}
    \cup {[name |-> n, is_dir |-> d, has_git |-> FALSE, remote |-> NoRemote] :
            n \in DirNames, d \in BOOLEAN}

\* os.listdir: distinct names
Listings ==
    {l \in SeqsUpTo(DirEntries, MaxDirs) : \A i, j \in DOMAIN l : i # j => l[i].name # l[j].name}

NoScan == [done |-> FALSE, installed |-> <<>>, packages |-> <<>>, env_error |-> FALSE]

ScanInputs == [packages : Scrapes \ {<<>>}, entries : Listings]

NoScanInput == [packages |-> <<>>, entries |-> <<>>]

\* mmpm list --installed: the scan of the modules directory
Scan ==
    LET r == get_installed_packages(scan_in.packages, scan_in.entries, ScanRoot) IN
    /\ ~scan_out.done
    /\ scan_out' = [done |-> TRUE, installed |-> r.installed, packages |-> r.packages,
                    env_error |-> r.env_error]
    /\ UNCHANGED scan_in

(***************************************************************************)
(* Dependencies: mmpm.utils.install_dependencies.                          *)
(***************************************************************************)
NoText == <<>>

Truthy(text) == text # NoText

PACKAGE_JSON == "package.json"
GEMFILE == "Gemfile"
MAKEFILE == "Makefile"
CMAKELISTS == "CMakeLists.txt"

DepSteps == <<"npm", "bundle", "make", "cmake", "make_build">>

\* str.lower() and str.upper() of the marker names
Lower(file_name) ==
    CASE file_name = PACKAGE_JSON -> "package.json"
      [] file_name = GEMFILE -> "gemfile"
      [] file_name = MAKEFILE -> "makefile"
      [] file_name = CMAKELISTS -> "cmakelists.txt"

Upper(file_name) ==
    CASE file_name = PACKAGE_JSON -> "PACKAGE.JSON"
      [] file_name = GEMFILE -> "GEMFILE"
      [] file_name = MAKEFILE -> "MAKEFILE"
      [] file_name = CMAKELISTS -> "CMAKELISTS.TXT"

\* the name as given, in lower case or in upper case is a file of the directory
package_requirements_file_exists(file_name, files) ==
    \E name \in {file_name, Lower(file_name), Upper(file_name)} : name \in files

\* package_requirements_file_exists for the marker of a step; the second Makefile
\* check runs in the build directory, where cmake has left the process
StepPresent(step, dep) ==
    CASE step = "npm" -> package_requirements_file_exists(PACKAGE_JSON, dep.markers)
      [] step = "bundle" -> package_requirements_file_exists(GEMFILE, dep.markers)
      [] step = "make" -> package_requirements_file_exists(MAKEFILE, dep.markers)
      [] step = "cmake" -> package_requirements_file_exists(CMAKELISTS, dep.markers)
      [] step = "make_build" ->
            /\ package_requirements_file_exists(CMAKELISTS, dep.markers)
            /\ package_requirements_file_exists(MAKEFILE, dep.build)

RECURSIVE RunDepSteps(_, _, _)
RunDepSteps(steps, dep, ran) ==
    IF steps = <<>> THEN [error |-> NoText, ran |-> ran, failed |-> FALSE]
    ELSE IF ~StepPresent(Head(steps), dep) THEN RunDepSteps(Tail(steps), dep, ran)
    ELSE IF dep.results[Head(steps)].code # 0
         THEN [error |-> dep.results[Head(steps)].stderr,
               ran |-> Append(ran, Head(steps)), failed |-> TRUE]
         ELSE RunDepSteps(Tail(steps), dep, Append(ran, Head(steps)))

\* the error text returned: empty when every step that ran exited with code 0, else
\* the stderr of the first step that did not
install_dependencies(dep) == RunDepSteps(DepSteps, dep, <<>>)

Ok == Cmd(0, NoText, NoText)
Fail(stderr) == Cmd(1, NoText, stderr)

AllOk == [s \in Range(DepSteps) |-> Ok]

\* the dependency situations of the upgrade and install checks
NoDeps == [markers |-> {}, build |-> {}, results |-> AllOk]

DepCases ==
    {NoDeps,
     [markers |-> {PACKAGE_JSON}, build |-> {}, results |-> AllOk],
     [markers |-> {PACKAGE_JSON}, build |-> {},
      results |-> [AllOk EXCEPT !["npm"] = Fail(<<"npm ERR!">>)]],
     [markers |-> {PACKAGE_JSON}, build |-> {},
      results |-> [AllOk EXCEPT !["npm"] = Fail(NoText)]]}

\* how a build command ends: exit 0, or a non-zero exit with or without error text
StepOutcomes == {Ok, Fail(<<"error">>), Fail(NoText)}

\* the files of the package directory, whose names can differ from the markers in
\* case
DirFiles == {"package.json", "Gemfile", "gemfile", "GemFile", "Makefile", "MAKEFILE",
             "CMakeLists.txt"}

\* the files of the package directory, those cmake leaves in the build directory,
\* and how each command would end
DepInputs ==
    [markers : SUBSET DirFiles,
     build : {{}, {"Makefile"}, {"makefile"}},
     results : [Range(DepSteps) -> StepOutcomes]]

NoDepsCall == [called |-> FALSE, dep |-> NoDeps, error |-> NoText, ran |-> <<>>]

\* git pull, git clone: success, failure with a message, failure without one
GitOutcomes ==
    {Cmd(0, NoText, <<"From https://x">>), Fail(<<"fatal: unable to access">>), Fail(NoText)}

(***************************************************************************)
(* UpgradeLedger: the available-upgrades file.                             *)
(***************************************************************************)
MMPM == "mmpm"
PACKAGES == "packages"
MAGICMIRROR == "MagicMirror"

\* os.path.normpath of the values MMPM_MAGICMIRROR_ROOT takes in the model
normpath(value) ==
    CASE value = "/home/pi/MagicMirror/" -> "/home/pi/MagicMirror"
      [] OTHER -> value

EnvValues == {"/home/pi/MagicMirror/", "/opt/mirror"}

DefaultEntry == <<[key |-> PACKAGES, val |-> <<>>], [key |-> MAGICMIRROR, val |-> FALSE]>>

\* a reset that forgets the entry of the root
ToolFlagOnly(root) == <<[key |-> MMPM, val |-> FALSE]>>

\* the document written when the file does not parse
DefaultUpgrades(root) ==
    <<[key |-> MMPM, val |-> FALSE], [key |-> root, val |-> DefaultEntry]>>

\* a repair that starts the document afresh
StartAfresh(upgrades, root) == DefaultUpgrades(root)

\* the KeyError branch: upgrades[root] = {PACKAGES: [], MAGICMIRROR: False}
AddRootKey(upgrades, root) == Put(upgrades, root, DefaultEntry)

get_available_upgrades(file, root) ==
    LET reset_file == file.kind # "json"
        add_key == ~reset_file
                   /\ ~(HasKey(file.doc, root) /\ HasKey(Get(file.doc, root), PACKAGES))
    IN  IF reset_file
        THEN [upgrades |-> DefaultUpgrades(root), file |-> Json(DefaultUpgrades(root))]
        ELSE IF add_key
        THEN [upgrades |-> AddRootKey(file.doc, root),
              file |-> Json(AddRootKey(file.doc, root))]
        ELSE [upgrades |->
                  Put(file.doc, root,
                      Put(Get(file.doc, root), PACKAGES,
                          list_of_dict_to_list_of_magicmirror_packages(
                              Get(Get(file.doc, root), PACKAGES)))),
              file |-> file]

\* mmpm.utils.reset_available_upgrades_for_environment, which returns whether the
\* reset succeeded (succeeded is the value it returns).  A reset that succeeds is a
\* rewrite of the whole document as a read yields it, with the packages list and
\* the MagicMirror flag of root cleared; one that does not leaves the file alone.
reset_available_upgrades_for_environment(file, root, succeeded) ==
    IF succeeded
    THEN [ok |-> TRUE,
          file |-> Json(Put(get_available_upgrades(file, root).file.doc, root, DefaultEntry))]
    ELSE [ok |-> FALSE, file |-> file]

SerializeFullAll(l) == [i \in DOMAIN l |-> serialize_full(l[i])]

RECURSIVE Flatten(_)
\* the packages of every category, in the order of iteration
Flatten(d) == IF d = <<>> THEN <<>> ELSE Head(d).val \o Flatten(Tail(d))

\* a classification by the output alone, whatever the exit code
ProbeHasOutput(probe) == Truthy(probe.stderr)

\* git fetch --dry-run, unpacked as error_code, _, stdout: the third value is the
\* stderr stream, where git reports what a fetch would bring
ProbeUpgradable(probe) == probe.code = 0 /\ Truthy(probe.stderr)

\* when nothing is installed the entry of the root is reset and the list is empty
ResetWhenNoneInstalled(any_installed) == ~any_installed

\* a recording that rewrites the whole entry of the root
RecordWholeEntry(upgrades, root, upgradeable) ==
    Put(upgrades, root,
        <<[key |-> PACKAGES, val |-> SerializeFullAll(upgradeable)],
          [key |-> MAGICMIRROR, val |-> FALSE]>>)

\* upgrades[root][PACKAGES] = [pkg.serialize_full() for pkg in upgradeable]
RecordPackageUpgrades(upgrades, root, upgradeable) ==
    Put(upgrades, root,
        Put(Get(upgrades, root), PACKAGES, SerializeFullAll(upgradeable)))

check_for_package_updates(packages, entries, probes, file, root, reset_succeeds) ==
    LET installed_packages == get_installed_packages(packages, entries, root).installed
        flat == Flatten(installed_packages)
        any_installed == \E i \in DOMAIN installed_packages :
                             installed_packages[i].val # <<>>
        reset == reset_available_upgrades_for_environment(file, root, reset_succeeds)
        upgradeable == SelectIdx(flat, {i \in DOMAIN flat : ProbeUpgradable(probes[i])}, 1)
        got == get_available_upgrades(file, root)
        upgrades == RecordPackageUpgrades(got.upgrades, root, upgradeable)
    IN  IF ResetWhenNoneInstalled(any_installed)
        THEN [upgradeable |-> <<>>, any_installed |-> any_installed, reset_ok |-> reset.ok,
              file |-> IF reset.ok THEN reset.file ELSE Empty]
        ELSE [upgradeable |-> upgradeable, any_installed |-> any_installed,
              reset_ok |-> FALSE,
              file |-> Json(upgrades)]

(***************************************************************************)
(* ReconciliationEngine: upgrade_available and what it calls.              *)
(***************************************************************************)
\* mmpm.utils.prompt_user: yes without asking under assume_yes, else the answer
prompt_user(assume_yes, answer) == assume_yes \/ answer

\* the error text of one package upgrade: git pull, then the dependencies
upgrade_package(pull, dep) ==
    IF pull.code # 0 THEN pull.stderr ELSE install_dependencies(dep).error

\* clone into /tmp/mmpm, then make reinstall through os.system, whose exit status
\* is not looked at
upgrade_mmpm(clone, reinstall) == IF clone.code # 0 THEN clone.stderr ELSE NoText

upgrade_magicmirror(pull, dep) ==
    IF pull.code # 0 THEN pull.stderr ELSE install_dependencies(dep).error

\* whether a package leaves the pending list: decided by the error text alone
CountsAsUpgraded(error) == ~Truthy(error)

RECURSIVE MatchSelection(_, _, _)
\* the loop that appends every pending package named in the selection and removes
\* its title from the selection
MatchSelection(pending, valid_pkgs, selection) ==
    IF pending = <<>> THEN [valid_pkgs |-> valid_pkgs, selection |-> selection]
    ELSE IF Head(pending).title \in Range(selection)
         THEN MatchSelection(Tail(pending), Append(valid_pkgs, Head(pending)),
                             ListRemove(selection, Head(pending).title))
         ELSE MatchSelection(Tail(pending), valid_pkgs, selection)

\* the first part of upgrade_available: what is confirmed for upgrade
ConfirmUpgrades(upgrades, root, assume_yes, selection, yes, ans_mm, ans_mmpm) ==
    LET entry == Get(upgrades, root)
        pending == Get(entry, PACKAGES)
        user_selections == selection # <<>>
        in_block == pending # <<>> /\ user_selections
        listed == SelectIdx(pending,
                            {i \in DOMAIN pending : pending[i].title \in Range(selection)}, 1)
        m == MatchSelection(pending, listed, selection)
        mmpm_selected == in_block /\ MMPM \in Range(m.selection) /\ Get(upgrades, MMPM)
        sel1 == IF mmpm_selected THEN ListRemove(m.selection, MMPM) ELSE m.selection
        magicmirror_selected ==
            in_block /\ MAGICMIRROR \in Range(sel1) /\ Get(entry, MAGICMIRROR)
        sel2 == IF magicmirror_selected THEN ListRemove(sel1, MAGICMIRROR) ELSE sel1
        asked_sel == {i \in DOMAIN m.valid_pkgs : m.valid_pkgs[i].title \in Range(sel2)}
        packages ==
            IF pending = <<>> THEN <<>>
            ELSE IF user_selections
            THEN SelectIdx(m.valid_pkgs,
                           {i \in asked_sel : prompt_user(assume_yes, i \in yes)}, 1)
            ELSE SelectIdx(pending,
                           {i \in DOMAIN pending : prompt_user(assume_yes, i \in yes)}, 1)
        ask_mm == (Get(entry, MAGICMIRROR) /\ magicmirror_selected) \/ ~user_selections
        ask_mmpm == (Get(upgrades, MMPM) /\ mmpm_selected) \/ ~user_selections
    IN  [packages |-> packages,
         asked |-> IF pending = <<>> THEN {}
                   ELSE IF user_selections THEN asked_sel ELSE DOMAIN pending,
         unmatched |-> IF in_block THEN sel2 ELSE <<>>,
         ask_mm |-> ask_mm, ask_mmpm |-> ask_mmpm,
         magicmirror |-> ask_mm /\ prompt_user(assume_yes, ans_mm),
         mmpm |-> ask_mmpm /\ prompt_user(assume_yes, ans_mmpm)]

\* upgrades[root][PACKAGES].remove(pkg)
RemovePending(upgrades, root, pkg) ==
    Put(upgrades, root,
        Put(Get(upgrades, root), PACKAGES, ListRemove(Get(Get(upgrades, root), PACKAGES), pkg)))

\* the end of upgrade_available: the pending packages serialized, the file written
DumpUpgrades(upgrades, root) ==
    Json(Put(upgrades, root,
             Put(Get(upgrades, root), PACKAGES,
                 SerializeFullAll(Get(Get(upgrades, root), PACKAGES)))))

(***************************************************************************)
(* The universe of the ledger checks.                                      *)
(***************************************************************************)
TitleOf == <<"MMM-A", "MMM-B", "MMM-C", "MMM-D", "MMM-E">>

UrlOf == << <<"https://x/a">>, <<"https://x/b">>, <<"https://x/c">>,
            <<"https://x/d">>, <<"https://x/e">> >>

CatalogPkg(i) == MagicMirrorPackage(TitleOf[i], "author", UrlOf[i], "module", NoPath)

InstalledPkg(i, root) ==
    MagicMirrorPackage(TitleOf[i], "author", UrlOf[i], "module",
                       PathJoin(ModulesDirOf(root), TitleOf[i]))

\* the catalog of the ledger checks: two categories over MaxPending packages
LedgerCatalog ==
    <<[key |-> "Clocks", val |-> [i \in 1..(MaxPending - 1) |-> CatalogPkg(i)]],
      [key |-> "Weather", val |-> <<CatalogPkg(MaxPending)>>]>>

\* a modules directory holding the clones of the packages in S
ClonesOf(S) ==
    LET all == [i \in 1..MaxPending |->
                   [name |-> TitleOf[i], is_dir |-> TRUE, has_git |-> TRUE,
                    remote |-> Cmd(0, UrlOf[i] \o <<"\n">>, NoText)]]
    IN  SelectIdx(all, S, 1)

\* git fetch --dry-run
ProbeOutcomes == {Cmd(0, NoText, NoText), Cmd(0, NoText, <<"From https://x">>),
                  Cmd(128, NoText, <<"fatal: unable to access">>)}

OtherRoot(root) == CHOOSE r \in Roots : r # root

\* what earlier invocations can have left as the pending list of a root
PendingLists(root) ==
    {[i \in DOMAIN SelectIdx([j \in 1..MaxPending |-> j], S, 1) |->
         serialize_full(InstalledPkg(SelectIdx([j \in 1..MaxPending |-> j], S, 1)[i], root))] :
       S \in SUBSET (1..MaxPending)}

EntryOf(packages, flag) ==
    <<[key |-> PACKAGES, val |-> packages], [key |-> MAGICMIRROR, val |-> flag]>>

\* the documents of the file: the tool flag, the other root or not, the current root
\* or not
LedgerDocs(root) ==
    LET others == {<<>>, <<[key |-> OtherRoot(root),
                           val |-> EntryOf(<<serialize_full(InstalledPkg(1, OtherRoot(root)))>>,
                                           TRUE)]>>}
        mine == {<<>>} \cup {<<[key |-> root, val |-> EntryOf(l, f)]>> :
                                l \in PendingLists(root), f \in BOOLEAN}
    IN  {<<[key |-> MMPM, val |-> t]>> \o o \o m : t \in BOOLEAN, o \in others, m \in mine}

LedgerFiles(root) == {Empty, Malformed} \cup {Json(d) : d \in LedgerDocs(root)}

NoUpdate ==
    [done |-> FALSE, pre_file |-> Empty, any_installed |-> FALSE, reset_ok |-> FALSE,
     installed |-> <<>>, probes |-> <<>>, upgradeable |-> <<>>]

\* what the upgrades of the tool and of MagicMirror did, and the flags before them
NoApps == [mmpm_failed |-> FALSE, mm_failed |-> FALSE, pre_mmpm |-> FALSE, pre_mm |-> FALSE]

\* the exit status of make reinstall
MakeOutcomes == {0, 2}

IdleUpgrade ==
    [pc |-> "idle", assume_yes |-> FALSE,
     upgrades |-> <<>>, pre_pending |-> <<>>, selection |-> <<>>,
     confirmed |-> <<>>, idx |-> 1, mmpm |-> FALSE, magicmirror |-> FALSE,
     ask_mmpm |-> FALSE, ask_mm |-> FALSE, upgraded |-> FALSE, log |-> <<>>,
     apps |-> NoApps]

DefaultRoot == "/home/pi/MagicMirror"

NoLookup == [done |-> FALSE, pre_file |-> Empty, upgrades |-> <<>>]

\* JSON objects that no run of the tool writes but a hand can leave: the empty
\* object, documents without the tool key, entries of the root without one of
\* their two fields
HandEditedDocs(root) ==
    LET mine == {EntryOf(l, f) : l \in PendingLists(root), f \in BOOLEAN}
        other == [key |-> OtherRoot(root),
                  val |-> EntryOf(<<serialize_full(InstalledPkg(1, OtherRoot(root)))>>, TRUE)]
    IN  {<<>>, <<other>>}
        \cup {<<[key |-> root, val |-> e]>> : e \in mine}
        \cup {<<[key |-> MMPM, val |-> t], [key |-> root, val |-> <<e[1]>>]>> :
                 t \in BOOLEAN, e \in mine}
        \cup {<<[key |-> MMPM, val |-> t], [key |-> root, val |-> <<e[2]>>]>> :
                 t \in BOOLEAN, e \in mine}

LookupFiles(root) == LedgerFiles(root) \cup {Json(d) : d \in HandEditedDocs(root)}

\* one call of get_available_upgrades
GetAvailableUpgrades ==
    /\ ~lookup.done
    /\ LET got == get_available_upgrades(upgrades_file, normpath(env_root))
       IN  /\ upgrades_file' = got.file
           /\ lookup' = [done |-> TRUE, pre_file |-> upgrades_file,
                         upgrades |-> got.upgrades]
    /\ UNCHANGED <<env_root, upd, upg>>

Fresh == ~upd.done /\ upg.pc = "idle"

\* mmpm update: the package part
CheckForPackageUpdates ==
    /\ Fresh
    /\ \E S \in SUBSET (1..MaxPending) :
       \E reset_succeeds \in IF S = {} THEN BOOLEAN ELSE {TRUE} :
        LET root == normpath(env_root)
            entries == ClonesOf(S)
            flat == Flatten(get_installed_packages(LedgerCatalog, entries, root).installed)
        IN  \E probes \in [DOMAIN flat -> ProbeOutcomes] :
                LET r == check_for_package_updates(LedgerCatalog, entries, probes,
                                                   upgrades_file, root, reset_succeeds)
                IN  /\ upgrades_file' = r.file
                    /\ upd' = [done |-> TRUE, pre_file |-> upgrades_file,
                               any_installed |-> r.any_installed,
                               reset_ok |-> r.reset_ok,
                               installed |-> flat, probes |-> probes,
                               upgradeable |-> r.upgradeable]
    /\ UNCHANGED <<env_root, upg, lookup>>

Selections == {<<>>, <<TitleOf[1]>>, <<TitleOf[1], TitleOf[1]>>, <<TitleOf[2], MMPM, MAGICMIRROR>>}

\* mmpm upgrade: the file is read and the prompts are answered; an answer is drawn
\* for every prompt that is shown
UpgradeBegin ==
    /\ Fresh
    /\ LET root == normpath(env_root)
           got == get_available_upgrades(upgrades_file, root)
       IN
       \E assume_yes \in BOOLEAN, selection \in Selections :
        LET shown == ConfirmUpgrades(got.upgrades, root, assume_yes, selection, {},
                                     FALSE, FALSE)
        IN
        \E yes \in IF assume_yes THEN {{}} ELSE SUBSET shown.asked,
           ans_mm \in IF assume_yes \/ ~shown.ask_mm THEN {TRUE} ELSE BOOLEAN,
           ans_mmpm \in IF assume_yes \/ ~shown.ask_mmpm THEN {TRUE} ELSE BOOLEAN :
            LET c == ConfirmUpgrades(got.upgrades, root, assume_yes, selection, yes,
                                     ans_mm, ans_mmpm)
            IN  /\ upgrades_file' = got.file
                /\ upg' = [pc |-> IF c.packages = <<>> THEN "apps" ELSE "packages",
                           assume_yes |-> assume_yes,
                           upgrades |-> got.upgrades,
                           pre_pending |-> Get(Get(got.upgrades, root), PACKAGES),
                           selection |-> selection,
                           confirmed |-> c.packages, idx |-> 1,
                           mmpm |-> c.mmpm, magicmirror |-> c.magicmirror,
                           ask_mmpm |-> c.ask_mmpm, ask_mm |-> c.ask_mm,
                           upgraded |-> FALSE, log |-> <<>>, apps |-> NoApps]
    /\ UNCHANGED <<env_root, upd, lookup>>

\* one pass of the loop over the confirmed packages
UpgradePackage ==
    /\ upg.pc = "packages"
    /\ \E pull \in GitOutcomes :
       \E dep \in IF pull.code = 0 THEN DepCases ELSE {NoDeps} :
        LET root == normpath(env_root)
            pkg == upg.confirmed[upg.idx]
            error == upgrade_package(pull, dep)
            failed == pull.code # 0 \/ install_dependencies(dep).failed
            pending == Get(Get(upg.upgrades, root), PACKAGES)
            last == upg.idx = Len(upg.confirmed)
            entry == [package |-> pkg, failed |-> failed, reported |-> Truthy(error)]
        IN  IF ~CountsAsUpgraded(error)
            THEN upg' = [upg EXCEPT !.idx = @ + 1, !.log = Append(@, entry),
                                    !.pc = IF last THEN "apps" ELSE "packages"]
            ELSE IF pkg \notin Range(pending)
            THEN upg' = [upg EXCEPT !.pc = "crashed", !.log = Append(@, entry)]
            ELSE upg' = [upg EXCEPT !.idx = @ + 1, !.log = Append(@, entry),
                                    !.upgrades = RemovePending(@, root, pkg),
                                    !.upgraded = TRUE,
                                    !.pc = IF last THEN "apps" ELSE "packages"]
    /\ UNCHANGED <<upgrades_file, env_root, upd, lookup>>

\* the tool and the application, then the file is written
UpgradeApps ==
    /\ upg.pc = "apps"
    /\ \E clone \in IF upg.mmpm THEN GitOutcomes ELSE {Ok} :
       \E reinstall \in IF upg.mmpm /\ clone.code = 0 THEN MakeOutcomes ELSE {0} :
       \E pull \in IF upg.magicmirror THEN GitOutcomes ELSE {Ok} :
       \E dep \in IF upg.magicmirror /\ pull.code = 0 THEN DepCases ELSE {NoDeps} :
        LET root == normpath(env_root)
            mmpm_error == upgrade_mmpm(clone, reinstall)
            mm_error == upgrade_magicmirror(pull, dep)
            u1 == IF upg.mmpm /\ ~Truthy(mmpm_error)
                  THEN Put(upg.upgrades, MMPM, FALSE) ELSE upg.upgrades
            u2 == IF upg.magicmirror /\ ~Truthy(mm_error)
                  THEN Put(u1, root, Put(Get(u1, root), MAGICMIRROR, FALSE)) ELSE u1
        IN  /\ upgrades_file' = DumpUpgrades(u2, root)
            /\ upg' = [upg EXCEPT !.pc = "done", !.upgrades = u2,
                                  !.apps = [mmpm_failed |-> clone.code # 0 \/ reinstall # 0,
                                            mm_failed |-> pull.code # 0
                                                \/ install_dependencies(dep).failed,
                                            pre_mmpm |-> Get(upg.upgrades, MMPM),
                                            pre_mm |-> Get(Get(upg.upgrades, root),
                                                           MAGICMIRROR)],
                                  !.upgraded = @ \/ (upg.mmpm /\ ~Truthy(mmpm_error))
                                                 \/ (upg.magicmirror /\ ~Truthy(mm_error))]
    /\ UNCHANGED <<env_root, upd, lookup>>

(***************************************************************************)
(* ReconciliationEngine: check_for_mmpm_updates,                           *)
(* check_for_magicmirror_updates.                                          *)
(***************************************************************************)
\* the versions compared as floats, in tenths: 0.0, 2.0, 2.1
Versions == {0, 20, 21}

\* curl of the file holding __version__: the exit code, whether the page has a line
\* "__version__ = <digits>.<digits>", and the version that line names
CurlOutcomes ==
    {[code |-> c, named |-> TRUE, version |-> v] : c \in {0, 6}, v \in Versions}
    \cup {[code |-> c, named |-> FALSE, version |-> 0] : c \in {0, 6}}

\* upgrades, _ = get_available_upgrades(): the unpacking of a dict iterates its
\* keys, and raises ValueError unless there are exactly two of them
UnpackPair(upgrades) ==
    IF Len(upgrades) = 2
    THEN [raised |-> FALSE, first |-> upgrades[1].key, second |-> upgrades[2].key]
    ELSE [raised |-> TRUE, first |-> "", second |-> ""]

\* A page without the version line makes findall(...)[0] raise IndexError; a
\* version of 0.0 ends in fatal_msg.
\* With a newer version found, the ledger is read and unpacked.  When the unpacking
\* succeeds upgrades is the first key, a string: the file is opened for writing,
\* which truncates it, and upgrades[MMPM] = True raises TypeError.
check_for_mmpm_updates(file, root, current, curl) ==
    LET got == get_available_upgrades(file, root)
        pair == UnpackPair(got.upgrades)
    IN  IF curl.code # 0 THEN [file |-> file, end |-> "fatal", newer |-> FALSE]
        ELSE IF ~curl.named THEN [file |-> file, end |-> "raised", newer |-> FALSE]
        ELSE IF curl.version = 0 THEN [file |-> file, end |-> "fatal", newer |-> FALSE]
        ELSE IF current >= curl.version
        THEN [file |-> file, end |-> "returned", newer |-> FALSE]
        ELSE IF pair.raised THEN [file |-> got.file, end |-> "raised", newer |-> TRUE]
        ELSE [file |-> Empty, end |-> "raised", newer |-> TRUE]

\* stdout is the third value of run_cmd, the stderr stream of git fetch --dry-run;
\* error_code is reported and not otherwise used
UpdateAvailable(is_git, fetch) == is_git /\ Truthy(fetch.stderr)

check_for_magicmirror_updates(file, root, root_exists, is_git, fetch) ==
    LET update_available == UpdateAvailable(is_git, fetch)
        upgrades ==
            IF file.kind # "json"
            THEN <<[key |-> MMPM, val |-> FALSE],
                   [key |-> root, val |-> EntryOf(<<>>, update_available)]>>
            ELSE file.doc
        written ==
            IF ~HasKey(upgrades, root)
            THEN Put(upgrades, root, EntryOf(<<>>, update_available))
            ELSE Put(upgrades, root, Put(Get(upgrades, root), MAGICMIRROR, update_available))
    IN  IF ~root_exists THEN [file |-> file, ret |-> FALSE, wrote |-> FALSE]
        ELSE [file |-> Json(written), ret |-> update_available, wrote |-> TRUE]

(***************************************************************************)
(* Sequences of operations on the ledger, under one root or another.       *)
(***************************************************************************)
\* the roots that have an entry in the file
RootsIn(file) ==
    IF file.kind = "json" THEN {k \in Range(Keys(file.doc)) : k # MMPM} ELSE {}

RootPendingLists(root) ==
    {[i \in DOMAIN SelectIdx([j \in 1..MaxRootPackages |-> j], S, 1) |->
         serialize_full(InstalledPkg(SelectIdx([j \in 1..MaxRootPackages |-> j], S, 1)[i],
                                     root))] :
       S \in SUBSET (1..MaxRootPackages)}

\* the documents earlier invocations can have left: every root with an entry or not
RootDocs ==
    LET entries(r) == {<<>>} \cup {<<[key |-> r, val |-> EntryOf(l, f)]>> :
                                      l \in RootPendingLists(r), f \in BOOLEAN}
    IN  {<<[key |-> MMPM, val |-> t]>> \o a \o b :
            t \in BOOLEAN, a \in entries("/home/pi/MagicMirror"), b \in entries("/opt/mirror")}

RootFiles == {Empty, Malformed} \cup {Json(d) : d \in RootDocs}

\* no dry-run fetch was made
NoFetch == [root_exists |-> FALSE, is_git |-> FALSE, fetch |-> Ok]

NoRoots ==
    [n |-> 0, seen |-> {}, last |-> "none", newer |-> FALSE, end |-> "none",
     probe |-> NoFetch]

\* the record of one more operation
Ran(name, file) ==
    [n |-> roots.n + 1, seen |-> roots.seen \cup RootsIn(file), last |-> name,
     newer |-> FALSE, end |-> "none", probe |-> NoFetch]

\* a later invocation runs under another MMPM_MAGICMIRROR_ROOT
RootsSwitch ==
    /\ roots.n < MaxOps
    /\ \E value \in EnvValues \ {env_root} : env_root' = value
    /\ roots' = [roots EXCEPT !.last = "switch", !.newer = FALSE, !.probe = NoFetch]
    /\ UNCHANGED upgrades_file

\* get_available_upgrades
RootsLookup ==
    /\ roots.n < MaxOps
    /\ upgrades_file' = get_available_upgrades(upgrades_file, normpath(env_root)).file
    /\ roots' = Ran("lookup", upgrades_file')
    /\ UNCHANGED env_root

\* check_for_package_updates
RootsPackageCheck ==
    /\ roots.n < MaxOps
    /\ \E S \in SUBSET (1..MaxRootPackages) :
       \E reset_succeeds \in IF S = {} THEN BOOLEAN ELSE {TRUE} :
        LET root == normpath(env_root)
            entries == ClonesOf(S)
            flat == Flatten(get_installed_packages(LedgerCatalog, entries, root).installed)
        IN  \E probes \in [DOMAIN flat -> ProbeOutcomes] :
                upgrades_file' = check_for_package_updates(LedgerCatalog, entries, probes,
                                                           upgrades_file, root, reset_succeeds).file
    /\ roots' = Ran("packages", upgrades_file')
    /\ UNCHANGED env_root

\* check_for_magicmirror_updates
RootsAppCheck ==
    /\ roots.n < MaxOps
    /\ \E root_exists \in BOOLEAN, is_git \in BOOLEAN, fetch \in ProbeOutcomes :
           /\ upgrades_file' = check_for_magicmirror_updates(upgrades_file, normpath(env_root),
                                                             root_exists, is_git, fetch).file
           /\ roots' = [Ran("app", upgrades_file') EXCEPT
                            !.probe = [root_exists |-> root_exists, is_git |-> is_git,
                                       fetch |-> IF root_exists /\ is_git THEN fetch ELSE Ok]]
    /\ UNCHANGED env_root

\* check_for_mmpm_updates, the running version being 2.0
RootsToolCheck ==
    /\ roots.n < MaxOps
    /\ \E curl \in CurlOutcomes :
           LET call == check_for_mmpm_updates(upgrades_file, normpath(env_root), 20, curl)
           IN  /\ upgrades_file' = call.file
               /\ roots' = [Ran("tool", call.file) EXCEPT !.newer = call.newer,
                                                         !.end = call.end]
    /\ UNCHANGED env_root

RECURSIVE UpgradeEach(_, _, _, _)
\* the loop over the confirmed packages: a package leaves the pending list when
\* upgrade_package returns no error text
UpgradeEach(upgrades, root, confirmed, pulls) ==
    IF confirmed = <<>> THEN upgrades
    ELSE UpgradeEach(IF CountsAsUpgraded(upgrade_package(Head(pulls), NoDeps))
                     THEN RemovePending(upgrades, root, Head(confirmed))
                     ELSE upgrades,
                     root, Tail(confirmed), Tail(pulls))

\* upgrade_available without a selection, from the reading of the file to its writing
RootsUpgrade ==
    /\ roots.n < MaxOps
    /\ LET root == normpath(env_root)
           got == get_available_upgrades(upgrades_file, root)
       IN  \E assume_yes \in BOOLEAN :
           \E yes \in IF assume_yes THEN {{}}
                      ELSE SUBSET (DOMAIN Get(Get(got.upgrades, root), PACKAGES)),
              ans_mm \in IF assume_yes THEN {TRUE} ELSE BOOLEAN,
              ans_mmpm \in IF assume_yes THEN {TRUE} ELSE BOOLEAN :
               LET c == ConfirmUpgrades(got.upgrades, root, assume_yes, <<>>, yes,
                                        ans_mm, ans_mmpm)
               IN  \E pulls \in [DOMAIN c.packages -> GitOutcomes],
                      clone \in IF c.mmpm THEN GitOutcomes ELSE {Ok},
                      pull \in IF c.magicmirror THEN GitOutcomes ELSE {Ok} :
                       LET u1 == UpgradeEach(got.upgrades, root, c.packages, pulls)
                           u2 == IF c.mmpm /\ CountsAsUpgraded(upgrade_mmpm(clone, 0))
                                 THEN Put(u1, MMPM, FALSE) ELSE u1
                           u3 == IF c.magicmirror
                                    /\ CountsAsUpgraded(upgrade_magicmirror(pull, NoDeps))
                                 THEN Put(u2, root, Put(Get(u2, root), MAGICMIRROR, FALSE))
                                 ELSE u2
                       IN  upgrades_file' = DumpUpgrades(u3, root)
    /\ roots' = Ran("upgrade", upgrades_file')
    /\ UNCHANGED env_root

(***************************************************************************)
(* Two invocations, under different roots, on the same ledger file.        *)
(***************************************************************************)
Procs == {1, 2}

\* MMPM_MAGICMIRROR_ROOT in the environment of each invocation
ProcRoot(p) == IF p = 1 THEN "/home/pi/MagicMirror" ELSE "/opt/mirror"

\* check_for_magicmirror_updates, check_for_package_updates, upgrade_available
RaceOps == {"app", "packages", "upgrade"}

\* a write that starts from the document on disk at the time of the write
DocumentOnDisk(read, current) == current

\* the document a write starts from: the one the invocation loaded earlier; the
\* file is not read again, and no lock is held between the reading and the writing
DocumentInHand(read, current) == read

\* the reading of the file: json.load in check_for_magicmirror_updates, which
\* leaves the file alone; get_available_upgrades in the two others, which writes
\* the repaired document at once
ReadLedger(op, file, root) ==
    IF op = "app" THEN file ELSE get_available_upgrades(file, root).file

\* upgrade_available under assume_yes with no selection: every pending package,
\* the tool and the application, then the document is written
UpgradeAll(file, root, pulls, clone, pull) ==
    LET got == get_available_upgrades(file, root)
        c == ConfirmUpgrades(got.upgrades, root, TRUE, <<>>, {}, TRUE, TRUE)
        u1 == UpgradeEach(got.upgrades, root, c.packages, pulls)
        u2 == IF c.mmpm /\ CountsAsUpgraded(upgrade_mmpm(clone, 0))
              THEN Put(u1, MMPM, FALSE) ELSE u1
        u3 == IF c.magicmirror /\ CountsAsUpgraded(upgrade_magicmirror(pull, NoDeps))
              THEN Put(u2, root, Put(Get(u2, root), MAGICMIRROR, FALSE)) ELSE u2
    IN  DumpUpgrades(u3, root)

NoProc == [pc |-> "idle", op |-> "none", read |-> Empty, wrote |-> Empty]

NoRace == [procs |-> [p \in Procs |-> NoProc], last |-> 0]

\* an invocation starts and loads the ledger
RaceRead(p) ==
    /\ race.procs[p].pc = "idle"
    /\ \E op \in RaceOps :
        LET file == ReadLedger(op, upgrades_file, ProcRoot(p))
        IN  /\ upgrades_file' = file
            /\ race' = [procs |-> [race.procs EXCEPT
                                      ![p] = [pc |-> "read", op |-> op, read |-> file,
                                              wrote |-> Empty]],
                        last |-> IF file # upgrades_file THEN p ELSE race.last]

\* check_for_magicmirror_updates writes the app flag of its root
RaceWriteApp(p) ==
    /\ race.procs[p].pc = "read" /\ race.procs[p].op = "app"
    /\ \E fetch \in ProbeOutcomes :
        LET start == DocumentInHand(race.procs[p].read, upgrades_file)
            file == check_for_magicmirror_updates(start, ProcRoot(p), TRUE, TRUE, fetch).file
        IN  /\ upgrades_file' = file
            /\ race' = [procs |-> [race.procs EXCEPT ![p].pc = "done", ![p].wrote = file],
                        last |-> p]

\* check_for_package_updates writes the pending list of its root
RaceWritePackages(p) ==
    /\ race.procs[p].pc = "read" /\ race.procs[p].op = "packages"
    /\ \E S \in (SUBSET (1..MaxRootPackages)) \ {{}} :
        LET root == ProcRoot(p)
            entries == ClonesOf(S)
            flat == Flatten(get_installed_packages(LedgerCatalog, entries, root).installed)
            start == DocumentInHand(race.procs[p].read, upgrades_file)
        IN  \E probes \in [DOMAIN flat -> ProbeOutcomes] :
             LET file == check_for_package_updates(LedgerCatalog, entries, probes, start,
                                                   root, TRUE).file
             IN  /\ upgrades_file' = file
                 /\ race' = [procs |-> [race.procs EXCEPT ![p].pc = "done",
                                                          ![p].wrote = file],
                             last |-> p]

\* upgrade_available writes what is left pending for its root, and the flags
RaceWriteUpgrade(p) ==
    /\ race.procs[p].pc = "read" /\ race.procs[p].op = "upgrade"
    /\ LET root == ProcRoot(p)
           start == DocumentInHand(race.procs[p].read, upgrades_file)
           pending == Get(Get(get_available_upgrades(start, root).upgrades, root), PACKAGES)
           outcomes == GitOutcomes \ {Fail(NoText)}
       IN  \E pulls \in [DOMAIN pending -> outcomes], clone \in outcomes, pull \in outcomes :
            LET file == UpgradeAll(start, root, pulls, clone, pull)
            IN  /\ upgrades_file' = file
                /\ race' = [procs |-> [race.procs EXCEPT ![p].pc = "done",
                                                         ![p].wrote = file],
                            last |-> p]

(***************************************************************************)
(* The websocket bridge: display_magicmirror_modules_status,               *)
(* hide_magicmirror_modules, show_magicmirror_modules.                     *)
(***************************************************************************)
MaxModules == 2

ModuleNames == {"clock", "weather"}

\* what comes with the terminal event: nothing (None), a list of modules, or a
\* dict with the names that failed
NoData == [kind |-> "none", list |-> <<>>, fails |-> <<>>]
ListData(l) == [kind |-> "list", list |-> l, fails |-> <<>>]
EmptyDict == [kind |-> "dict", list |-> <<>>, fails |-> <<>>]
FailsData(l) == [kind |-> "fails", list |-> <<>>, fails |-> l]

\* bool(data)
HasData(data) ==
    CASE data.kind = "none" -> FALSE
      [] data.kind = "list" -> data.list # <<>>
      [] data.kind = "dict" -> FALSE
      [] data.kind = "fails" -> TRUE

\* [json_data for index, json_data in enumerate(data) if json_data not in data[index + 1:]]
UniqueData(l) ==
    SelectIdx(l, {i \in DOMAIN l : \A j \in DOMAIN l : j > i => l[j] # l[i]}, 1)

\* the handler of ACTIVE_MODULES: enumerate(None) raises TypeError, and the handler
\* ends before the disconnect
active_modules(data) ==
    IF data.kind = "none"
    THEN [reported |-> TRUE, printed |-> <<>>, raised |-> TRUE, disconnected |-> FALSE]
    ELSE [reported |-> ~HasData(data), printed |-> UniqueData(data.list),
          raised |-> FALSE, disconnected |-> TRUE]

\* the handler of MODULES_HIDDEN
modules_hidden(data) ==
    [reported |-> ~HasData(data) \/ data.fails # <<>>, printed |-> <<>>,
     raised |-> FALSE, disconnected |-> TRUE]

\* the handler of MODULES_SHOWN
modules_shown(data) ==
    [reported |-> ~HasData(data) \/ data.fails # <<>>, printed |-> <<>>,
     raised |-> FALSE, disconnected |-> TRUE]

BridgeOps == {"list", "hide", "show"}

\* the event emitted on connect, and the terminal event of each operation
RequestOf(op) ==
    CASE op = "list" -> "FROM_MMPM_APP_get_active_modules"
      [] op = "hide" -> "FROM_MMPM_APP_hide_modules"
      [] op = "show" -> "FROM_MMPM_APP_show_modules"

TerminalOf(op) ==
    CASE op = "list" -> "ACTIVE_MODULES"
      [] op = "hide" -> "MODULES_HIDDEN"
      [] op = "show" -> "MODULES_SHOWN"

ModuleLists ==
    SeqsUpTo([name : ModuleNames, hidden : BOOLEAN], MaxModules)

NameLists == SeqsUpTo(ModuleNames, MaxModules)

\* the payloads the module in the dashboard can send with the terminal event
PayloadsOf(op, names) ==
    IF op = "list" THEN {NoData} \cup {ListData(l) : l \in ModuleLists}
    ELSE {NoData, EmptyDict, FailsData(<<>>)}
         \cup {FailsData(SelectIdx(names, S, 1)) : S \in SUBSET (DOMAIN names)}

NoBridge ==
    [pc |-> "idle", op |-> "none", names |-> <<>>, connected |-> FALSE, emitted |-> "",
     refused |-> FALSE, warned |-> FALSE, exited |-> FALSE, closed |-> FALSE,
     event |-> "", data |-> NoData,
     reported |-> FALSE, printed |-> <<>>, raised |-> FALSE]

(***************************************************************************)
(* mmpm.utils.get_difference_of_packages.                                  *)
(***************************************************************************)
MaxDiffPkgs == 2

RECURSIVE DifferenceFrom(_, _, _, _)
\* the loop over original.keys(): exclude[category] raises KeyError for a category
\* exclude does not hold; difference is a defaultdict, in which a category gets
\* a key when it is assigned or first appended to
DifferenceFrom(categories, original, exclude, difference) ==
    IF categories = <<>> THEN [raised |-> FALSE, difference |-> difference]
    ELSE LET category == Head(categories)
             orig == Get(original, category)
         IN  IF ~HasKey(exclude, category)
             THEN [raised |-> TRUE, difference |-> difference]
             ELSE IF Get(exclude, category) = <<>>
             THEN DifferenceFrom(Tail(categories), original, exclude,
                                 Put(difference, category, orig))
             ELSE LET kept == SelectIdx(orig, {i \in DOMAIN orig :
                                                   orig[i] \notin Range(Get(exclude, category))},
                                        1)
                  IN  DifferenceFrom(Tail(categories), original, exclude,
                                     IF kept = <<>> THEN difference
                                     ELSE Put(difference, category, kept))

get_difference_of_packages(original, exclude) ==
    DifferenceFrom(Keys(original), original, exclude, <<>>)

\* difference[category] of the defaultdict(list) returned
DefaultGet(d, k) == IF HasKey(d, k) THEN Get(d, k) ELSE <<>>

\* category-to-package mappings: none, one or both categories
DiffMappings ==
    LET lists == SeqsUpTo(Pool, MaxDiffPkgs)
    IN  {<<>>}
        \cup {<<[key |-> c, val |-> l]>> : c \in Categories, l \in lists}
        \cup {<<[key |-> "Clocks", val |-> a], [key |-> "Weather", val |-> b]>> :
                a \in lists, b \in lists}

NoDifference ==
    [done |-> FALSE, original |-> <<>>, exclude |-> <<>>, raised |-> FALSE,
     difference |-> <<>>]

(***************************************************************************)
(* ReconciliationEngine: get_installation_candidates.                      *)
(***************************************************************************)
\* the titles of the model in lower case
LowerCase(title) ==
    CASE title = "Foo" -> "foo"
      [] title = "Bar" -> "bar"
      [] title = "Nope" -> "nope"
      [] OTHER -> title

\* a comparison that ignores case
TitleMatchesAnyCase(title, package_to_install) ==
    LowerCase(title) = LowerCase(package_to_install)

\* package.title == package_to_install
TitleMatches(title, package_to_install) == title = package_to_install

\* the packages of every category whose title is the requested one
CandidatesFor(packages, package_to_install) ==
    LET all == Flatten(packages)
    IN  SelectIdx(all, {i \in DOMAIN all : TitleMatches(all[i].title, package_to_install)}, 1)

RECURSIVE get_installation_candidates(_, _)
get_installation_candidates(packages, packages_to_install) ==
    IF packages_to_install = <<>> THEN [candidates |-> <<>>, unmatched |-> <<>>]
    ELSE LET here == CandidatesFor(packages, Head(packages_to_install))
             rest == get_installation_candidates(packages, Tail(packages_to_install))
         IN  [candidates |-> here \o rest.candidates,
              unmatched |-> IF here = <<>>
                            THEN <<Head(packages_to_install)>> \o rest.unmatched
                            ELSE rest.unmatched]

\* the titles a user can ask for: as listed, in another case, unknown
RequestTitles == {"Foo", "foo", "Bar", "Nope"}

NoResolve ==
    [done |-> FALSE, packages |-> <<>>, packages_to_install |-> <<>>,
     candidates |-> <<>>, unmatched |-> <<>>]

\* mmpm install <titles>: the resolution of the titles
GetInstallationCandidates ==
    /\ ~resolve.done
    /\ LET r == get_installation_candidates(resolve.packages, resolve.packages_to_install)
       IN  resolve' = [resolve EXCEPT !.done = TRUE, !.candidates = r.candidates,
                                      !.unmatched = r.unmatched]
    /\ UNCHANGED <<modules_dir, inst>>

(***************************************************************************)
(* ReconciliationEngine: install_packages and install_package.             *)
(***************************************************************************)
\* MagicMirrorPackage(): what a declined candidate is replaced by
EmptyPackage == MagicMirrorPackage("", "", NoText, "", NoPath)

\* package == None
IsNone(package) == package = EmptyPackage

InstallRoot == "/home/pi/MagicMirror"

InstallTitles == <<"Foo", "Bar">>

\* os.listdir of the modules directory
ListDir(md) ==
    IF ~md.exists THEN <<>>
    ELSE LET all == [i \in DOMAIN InstallTitles |->
                        [name |-> InstallTitles[i], is_dir |-> TRUE, has_git |-> TRUE,
                         remote |-> NoRemote]]
         IN  SelectIdx(all, {i \in DOMAIN InstallTitles : md.dirs[InstallTitles[i]] # "none"}, 1)

\* the loop over existing_module_dirs: package.directory == existing_dir, the
\* directory a path under the modules directory, existing_dir a name of os.listdir
ConflictFound(directory, existing_module_dirs) ==
    \E i \in DOMAIN existing_module_dirs : directory = <<existing_module_dirs[i]>>

\* git clone <repo> <target>: refused when the target exists and is not empty
CloneOutcomes(state) ==
    IF state = "full" THEN {Fail(<<"fatal: destination path already exists">>)}
    ELSE GitOutcomes

install_package(state, assume_yes, clone, dep, remove_answer) ==
    LET deps == install_dependencies(dep)
        yes == prompt_user(assume_yes, remove_answer)
    IN  IF clone.code # 0
        THEN [success |-> FALSE, error |-> clone.stderr, state |-> state,
              ran_deps |-> FALSE, deps_failed |-> FALSE, prompted |-> FALSE]
        ELSE IF Truthy(deps.error)
        THEN [success |-> FALSE, error |-> deps.error,
              state |-> IF yes THEN "none" ELSE "full",
              ran_deps |-> TRUE, deps_failed |-> deps.failed, prompted |-> TRUE]
        ELSE [success |-> TRUE, error |-> NoText, state |-> "full",
              ran_deps |-> TRUE, deps_failed |-> deps.failed, prompted |-> FALSE]

\* the confirmation loop: a declined candidate becomes an empty package
ConfirmCandidates(candidates, assume_yes, yes) ==
    [i \in DOMAIN candidates |->
        IF prompt_user(assume_yes, i \in yes) THEN candidates[i] ELSE EmptyPackage]

DirStates == {"none", "empty", "full"}

ModulesDirs ==
    {[exists |-> FALSE, dirs |-> [t \in Range(InstallTitles) |-> "none"]]}
    \cup {[exists |-> TRUE, dirs |-> d] : d \in [Range(InstallTitles) -> DirStates]}

\* git clone at work: the target directory holds what was fetched so far
Cloning(dirs, title) == [dirs EXCEPT ![title] = "full"]

\* the directory left where it is
KeepTree(dirs, title) == dirs

\* os.system("rm -rf '<package.directory>'")
RemoveTree(dirs, title) == [dirs EXCEPT ![title] = "none"]

\* sys.exit(127) of keyboard_interrupt_log
INTERRUPT_EXIT_CODE == 127

\* where a keyboard interrupt can reach install_package: not at all, while git
\* clone runs, while the dependency steps run
InterruptPoints == {"none", "clone", "deps"}

IdleInstall ==
    [pc |-> "idle", assume_yes |-> FALSE, candidates |-> <<>>, idx |-> 1,
     existing_module_dirs |-> <<>>, starting_count |-> 0, pre_dirs |-> <<>>,
     log |-> <<>>, ret |-> FALSE, exit_code |-> 0, modules_dir_found |-> FALSE]

NoModulesDir == [exists |-> FALSE, dirs |-> [t \in Range(InstallTitles) |-> "none"]]

\* mmpm install: the early returns, the confirmations, the listing
InstallBegin ==
    /\ inst.pc = "idle"
    /\ \E candidates \in SeqsUpTo(Pool, MaxCandidates), assume_yes \in BOOLEAN,
          yes \in SUBSET (1..MaxCandidates) :
        LET existing == get_existing_package_directories(ListDir(modules_dir))
            early == ~modules_dir.exists \/ candidates = <<>>
        IN  inst' = [pc |-> IF early THEN "done" ELSE "installing",
                     assume_yes |-> assume_yes,
                     candidates |-> IF early THEN candidates
                                    ELSE ConfirmCandidates(candidates, assume_yes, yes),
                     idx |-> 1,
                     existing_module_dirs |-> IF early THEN <<>> ELSE existing,
                     starting_count |-> IF early THEN 0 ELSE Len(existing),
                     pre_dirs |-> IF early THEN <<>> ELSE existing,
                     log |-> <<>>, ret |-> FALSE, exit_code |-> 0,
                     modules_dir_found |-> modules_dir.exists]
    /\ UNCHANGED modules_dir

\* one pass of the loop over the candidates; the last pass returns.  The continue
\* of the conflict loop continues that inner loop, so the candidate goes on to
\* install_package whether or not a conflict was reported.  A keyboard interrupt
\* inside install_package removes package.directory and exits the process.
InstallStep ==
    /\ inst.pc = "installing"
    /\ LET package == inst.candidates[inst.idx]
           directory == PathJoin(ModulesDirOf(InstallRoot), package.title)
           pc1 == IF inst.idx = Len(inst.candidates) THEN "done" ELSE "installing"
       IN  IF IsNone(package)
           THEN /\ inst' = [inst EXCEPT !.idx = @ + 1, !.pc = pc1,
                                        !.ret = Len(inst.existing_module_dirs)
                                                # inst.starting_count]
                /\ UNCHANGED modules_dir
           ELSE LET conflict == ConflictFound(directory, inst.existing_module_dirs)
                    state == modules_dir.dirs[package.title]
                    entry == [title |-> package.title, pos |-> inst.idx,
                              existed |-> state # "none",
                              known |-> package.title \in Range(inst.existing_module_dirs),
                              conflict |-> conflict, clone_called |-> TRUE]
                IN  \E interrupt \in InterruptPoints :
                    \E clone \in IF interrupt = "deps"
                                 THEN {c \in CloneOutcomes(state) : c.code = 0}
                                 ELSE IF interrupt = "clone" THEN {Fail(NoText)}
                                 ELSE CloneOutcomes(state) :
                    \E dep \in IF clone.code = 0 /\ interrupt = "none"
                                THEN DepCases ELSE {NoDeps},
                       remove_answer \in IF inst.assume_yes \/ interrupt # "none"
                                         THEN {TRUE} ELSE BOOLEAN :
                        LET r == install_package(state, inst.assume_yes, clone, dep,
                                                 remove_answer)
                            existing == IF r.success
                                        THEN Append(inst.existing_module_dirs, package.title)
                                        ELSE inst.existing_module_dirs
                        IN  IF interrupt # "none"
                            THEN /\ modules_dir' =
                                       [modules_dir EXCEPT
                                           !.dirs = RemoveTree(Cloning(@, package.title),
                                                               package.title)]
                                 /\ inst' = [inst EXCEPT
                                       !.pc = "exited",
                                       !.exit_code = INTERRUPT_EXIT_CODE,
                                       !.log = Append(@, entry @@
                                           [clone_code |-> clone.code, success |-> FALSE,
                                            ran_deps |-> interrupt = "deps",
                                            deps_failed |-> FALSE, prompted |-> FALSE,
                                            declined |-> FALSE, state_after |-> "none",
                                            interrupted |-> interrupt])]
                            ELSE /\ modules_dir' =
                                       [modules_dir EXCEPT !.dirs[package.title] = r.state]
                                 /\ inst' = [inst EXCEPT
                                       !.idx = @ + 1, !.pc = pc1,
                                       !.existing_module_dirs = existing,
                                       !.ret = Len(existing) # inst.starting_count,
                                       !.log = Append(@, entry @@
                                           [clone_code |-> clone.code,
                                            success |-> r.success,
                                            ran_deps |-> r.ran_deps,
                                            deps_failed |-> r.deps_failed,
                                            prompted |-> r.prompted,
                                            declined |-> r.prompted /\ ~remove_answer
                                                         /\ ~inst.assume_yes,
                                            state_after |-> r.state,
                                            interrupted |-> "none"])]

(***************************************************************************)
(* ReconciliationEngine: remove_packages.                                  *)
(***************************************************************************)
valid_ack == {"yes", "y"}

valid_nack == {"no", "n"}

\* what the user does at a prompt: a valid answer, or Ctrl-C
Responses == {"y", "n", "interrupt"}

\* the input loop of prompt_user: True for a response of valid_ack, False for one
\* of valid_nack, and False when KeyboardInterrupt is caught
ReadResponse(response) ==
    IF response \in valid_ack THEN TRUE
    ELSE IF response \in valid_nack THEN FALSE
    ELSE FALSE

\* dir_name in package_dirs and dir_name in packages_to_remove
AskedToRemove(package, package_dirs, packages_to_remove) ==
    /\ PathBasename(package.directory) \in package_dirs
    /\ PathBasename(package.directory) \in Range(packages_to_remove)

\* the number of prompts answered by the user in the loop over installed_packages
PromptCount(installed, package_dirs, packages_to_remove, assume_yes) ==
    IF assume_yes THEN 0
    ELSE Cardinality({i \in DOMAIN installed :
                         AskedToRemove(installed[i], package_dirs, packages_to_remove)})

RECURSIVE MarkForRemoval(_, _, _, _, _)
\* the loop over installed_packages.items() and over the packages of each category
MarkForRemoval(installed, package_dirs, packages_to_remove, assume_yes, responses) ==
    IF installed = <<>> THEN [marked |-> <<>>, cancelled |-> <<>>, prompts |-> <<>>]
    ELSE LET dir_name == PathBasename(Head(installed).directory)
             asked == AskedToRemove(Head(installed), package_dirs, packages_to_remove)
             typed == asked /\ ~assume_yes
             response == IF typed THEN Head(responses) ELSE "assumed"
             yes == prompt_user(assume_yes, typed /\ ReadResponse(response))
             rest == MarkForRemoval(Tail(installed), package_dirs, packages_to_remove,
                                    assume_yes, IF typed THEN Tail(responses) ELSE responses)
         IN  IF ~asked THEN rest
             ELSE [marked |-> IF yes THEN <<dir_name>> \o rest.marked ELSE rest.marked,
                   cancelled |-> IF yes THEN rest.cancelled
                                 ELSE <<dir_name>> \o rest.cancelled,
                   prompts |-> <<[dir_name |-> dir_name, response |-> response]>>
                               \o rest.prompts]

\* the loop over packages_to_remove: the titles reported as not installed
NotInstalled(packages_to_remove, marked_for_removal, cancelled_removal) ==
    SelectIdx(packages_to_remove,
              {i \in DOMAIN packages_to_remove :
                  /\ packages_to_remove[i] \notin Range(marked_for_removal)
                  /\ packages_to_remove[i] \notin Range(cancelled_removal)}, 1)

RECURSIVE RemoveMarked(_, _, _)
\* the loop of shutil.rmtree(dir_name), the working directory being the modules
\* directory: rmtree of a directory that is not there raises FileNotFoundError
RemoveMarked(marked_for_removal, dirs, removed) ==
    IF marked_for_removal = <<>> THEN [dirs |-> dirs, removed |-> removed, raised |-> FALSE]
    ELSE IF Head(marked_for_removal) \notin dirs
    THEN [dirs |-> dirs, removed |-> removed, raised |-> TRUE]
    ELSE RemoveMarked(Tail(marked_for_removal), dirs \ {Head(marked_for_removal)},
                      Append(removed, Head(marked_for_removal)))

\* a package of the catalog found in <root>/modules/<title>
InstalledAt(package) ==
    [package EXCEPT !.directory = PathJoin(ModulesDirOf(InstallRoot), package.title)]

InstalledLists ==
    {[i \in DOMAIN l |-> InstalledAt(l[i])] :
        l \in {s \in SeqsUpTo(Pool, MaxInstalledPerCategory) : NoRepeat(s)}}

\* what get_installed_packages returns: every category, the installed ones in it
InstalledSets ==
    {<<[key |-> "Clocks", val |-> a], [key |-> "Weather", val |-> b]>> :
        a \in InstalledLists, b \in InstalledLists}

\* a directory of the modules directory that is no package of the catalog
OTHER_DIR == "misc"

RemovalTitles == {"Foo", "Bar", OTHER_DIR}

NoRemoval ==
    [pc |-> "idle", installed_packages |-> <<>>, packages_to_remove |-> <<>>,
     assume_yes |-> FALSE, dirs |-> {}, pre_dirs |-> {}, marked_for_removal |-> <<>>,
     cancelled_removal |-> <<>>, not_installed |-> <<>>, removed |-> <<>>,
     prompts |-> <<>>, exit_code |-> 0]

\* mmpm remove <titles>
RemovePackages ==
    /\ rem.pc = "idle"
    /\ LET installed == Flatten(rem.installed_packages)
           package_dirs == rem.dirs
       IN  \E responses \in [1..PromptCount(installed, package_dirs, rem.packages_to_remove,
                                            rem.assume_yes) -> Responses] :
               LET m == MarkForRemoval(installed, package_dirs, rem.packages_to_remove,
                                       rem.assume_yes, responses)
                   d == RemoveMarked(m.marked, rem.dirs, <<>>)
               IN  rem' = [rem EXCEPT
                       !.pc = IF d.raised THEN "raised" ELSE "done",
                       !.pre_dirs = rem.dirs,
                       !.dirs = d.dirs,
                       !.marked_for_removal = m.marked,
                       !.cancelled_removal = m.cancelled,
                       !.not_installed = NotInstalled(rem.packages_to_remove, m.marked,
                                                      m.cancelled),
                       !.removed = d.removed,
                       !.prompts = m.prompts]

(***************************************************************************)
(* External packages: add_external_package, remove_external_package_source *)
(***************************************************************************)
\* json.dump({EXTERNAL_PACKAGES: [...]}, default=lambda pkg: pkg.serialize())
DumpExternal(packages) ==
    Json(<<[key |-> EXTERNAL_PACKAGES,
            val |-> [i \in DOMAIN packages |-> serialize(packages[i])]]>>)

\* json.load(file)[EXTERNAL_PACKAGES] converted to packages
ReadExternal(file) ==
    list_of_dict_to_list_of_magicmirror_packages(Get(file.doc, EXTERNAL_PACKAGES))

\* os.path.exists(file) and os.stat(file).st_size, then the append and the dump; a
\* file that is not JSON makes json.load raise before anything is written
add_external_package(file, external_package) ==
    IF file.kind = "malformed" THEN [file |-> file, raised |-> TRUE]
    ELSE IF ExistsNonEmpty(file)
    THEN [file |-> DumpExternal(Append(ReadExternal(file), external_package)),
          raised |-> FALSE]
    ELSE [file |-> DumpExternal(<<external_package>>), raised |-> FALSE]

RECURSIVE ExternalMatches(_, _)
\* the loop over titles and, inside, over the packages: those with package.title == title
ExternalMatches(titles, packages) ==
    IF titles = <<>> THEN <<>>
    ELSE SelectIdx(packages, {i \in DOMAIN packages : packages[i].title = Head(titles)}, 1)
         \o ExternalMatches(Tail(titles), packages)

RECURSIVE RemoveEach(_, _)
\* the loop of list.remove(package): ValueError when the package is not in the list
RemoveEach(packages, marked_for_removal) ==
    IF marked_for_removal = <<>> THEN [packages |-> packages, raised |-> FALSE]
    ELSE IF Head(marked_for_removal) \notin Range(packages)
    THEN [packages |-> packages, raised |-> TRUE]
    ELSE RemoveEach(ListRemove(packages, Head(marked_for_removal)),
                    Tail(marked_for_removal))

\* responses: one per prompt shown, none under assume_yes
remove_external_package_source(file, titles, assume_yes, responses) ==
    IF ~ExistsNonEmpty(file) THEN [file |-> file, end |-> "fatal", prompts |-> <<>>]
    ELSE IF file.kind = "malformed" THEN [file |-> file, end |-> "raised", prompts |-> <<>>]
    ELSE LET packages == ReadExternal(file)
             matches == ExternalMatches(titles, packages)
             yes == {i \in DOMAIN matches :
                        prompt_user(assume_yes, ~assume_yes /\ ReadResponse(responses[i]))}
             marked_for_removal == SelectIdx(matches, yes, 1)
             removal == RemoveEach(packages, marked_for_removal)
             prompts == [i \in DOMAIN matches |->
                            IF assume_yes THEN "assumed" ELSE responses[i]]
         IN  IF packages = <<>> THEN [file |-> file, end |-> "fatal", prompts |-> <<>>]
             ELSE IF matches = <<>> THEN [file |-> file, end |-> "no match", prompts |-> <<>>]
             ELSE IF removal.raised THEN [file |-> file, end |-> "raised", prompts |-> prompts]
             ELSE [file |-> DumpExternal(removal.packages), end |-> "removed",
                   prompts |-> prompts]

\* the packages a user adds: one, one of the same title from another repository,
\* one of another title
ExternalPool ==
    {ExtPkg,
     MagicMirrorPackage("Mine", "you", <<"https://x/fork">>, "a fork", NoPath),
     OtherExtPkg}

ExternalTitles == {"Mine", "Yours"}

\* the external-packages file as found: absent, empty, not JSON, or a list
ExternalFiles ==
    {Absent, Empty, Malformed}
    \cup {DumpExternal(l) : l \in SeqsUpTo(ExternalPool, MaxExternal)}

NoExternal ==
    [pc |-> "idle", prior |-> Absent, package |-> EmptyPackage, added |-> FALSE,
     migration |-> "none", migrated |-> FALSE, titles |-> <<>>, prompts |-> <<>>]

\* mmpm add-ext_call-pkg
AddExternalPackage ==
    /\ ext_call.pc = "idle"
    /\ \E external_package \in ExternalPool :
           LET r == add_external_package(ext_file, external_package)
           IN  /\ ext_file' = r.file
               /\ ext_call' = [ext_call EXCEPT !.pc = IF r.raised THEN "raised" ELSE "added",
                                     !.prior = ext_file,
                                     !.package = external_package,
                                     !.added = ~r.raised]

\* mmpm remove --ext_call-pkg <titles>
RemoveExternalPackageSource ==
    /\ ext_call.pc \in {"idle", "added"}
    /\ \E titles \in SeqsUpTo(ExternalTitles, MaxRemovals) \ {<<>>}, assume_yes \in BOOLEAN :
       \E responses \in
              [1..(IF assume_yes \/ ext_file.kind # "json" THEN 0
                   ELSE Len(ExternalMatches(titles, ReadExternal(ext_file))))
               -> Responses] :
           LET r == remove_external_package_source(ext_file, titles, assume_yes, responses)
           IN  /\ ext_file' = r.file
               /\ ext_call' = [ext_call EXCEPT !.pc = r.end,
                                     !.prior = IF ext_call.added THEN @ ELSE ext_file,
                                     !.titles = titles,
                                     !.prompts = r.prompts]

\* dict.pop(k)
Pop(d, k) == SelectIdx(d, {i \in DOMAIN d : d[i].key # k}, 1)

LEGACY_KEY == "External Module Sources"

\* the try block of migrate: the legacy key renamed to EXTERNAL_PACKAGES, or an
\* empty list put under EXTERNAL_PACKAGES when the legacy key is missing
MigratedData(data) ==
    IF HasKey(data, LEGACY_KEY)
    THEN Pop(Put(data, EXTERNAL_PACKAGES, Get(data, LEGACY_KEY)), LEGACY_KEY)
    ELSE Put(data, EXTERNAL_PACKAGES, <<>>)

\* mmpm.core.migrate: nothing to do without the legacy file; a legacy file that
\* json.load cannot read ends in fatal_msg; else the legacy file is renamed over
\* the external-packages file, which is then rewritten with the migrated data
migrate(legacy, file) ==
    IF legacy.kind = "absent" THEN [legacy |-> legacy, file |-> file, end |-> "nothing"]
    ELSE IF legacy.kind # "json" THEN [legacy |-> legacy, file |-> file, end |-> "fatal"]
    ELSE [legacy |-> Absent, file |-> Json(MigratedData(legacy.doc)), end |-> "migrated"]

\* the legacy file as an older version of the tool left it: none, one of zero
\* length, one that is not JSON, one without the legacy key, one with a list
LegacyFiles ==
    {Absent, Empty, Malformed, Json(<<>>),
     Json(<<[key |-> LEGACY_KEY, val |-> <<serialize(OtherExtPkg)>>]>>)}

\* mmpm --migrate
Migrate ==
    /\ ext_call.pc \in {"idle", "added"}
    /\ ext_call.migration = "none"
    /\ LET r == migrate(legacy_file, ext_file)
       IN  /\ legacy_file' = r.legacy
           /\ ext_file' = r.file
           /\ ext_call' = [ext_call EXCEPT
                              !.migration = r.end,
                              !.migrated = r.end = "migrated" /\ ext_call.added]

(***************************************************************************)
(* CatalogStore: calc_snapshot_timestamps, should_refresh_packages.        *)
(***************************************************************************)
\* a timestamp in seconds, or None
None == [some |-> FALSE, t |-> 0]

Some(t) == [some |-> TRUE, t |-> t]

\* not x, for a timestamp or None
Falsy(x) == ~x.some \/ x.t = 0

\* os.path.exists(MAGICMIRROR_3RD_PARTY_PACKAGES_SNAPSHOT_FILE)
SnapshotExists(file) == file.kind # "absent"

calc_snapshot_timestamps(file, mtime) ==
    IF SnapshotExists(file)
    THEN [curr_snap |-> Some(mtime), next_snap |-> Some(mtime + 6 * 60 * 60)]
    ELSE [curr_snap |-> None, next_snap |-> None]

\* an expiry that needs the time to be past the expiration
ShouldRefreshWhenPast(current_snapshot, next_snapshot, file, now) ==
    IF Falsy(current_snapshot) /\ Falsy(next_snapshot) THEN TRUE
    ELSE ~SnapshotExists(file) \/ next_snapshot.t - now < 0

\* now is time.time()
should_refresh_packages(current_snapshot, next_snapshot, file, now) ==
    IF Falsy(current_snapshot) /\ Falsy(next_snapshot) THEN TRUE
    ELSE ~SnapshotExists(file) \/ next_snapshot.t - now <= 0

\* modification times of the snapshot file, and times of the call around the
\* expiration of each
ModificationTimes == {-21600, 0, 1000}

CallTimes == {m + d : m \in ModificationTimes, d \in {0, 21599, 21600, 21601}}

NoSnapshotCall ==
    [done |-> FALSE, mtime |-> 0, now |-> 0, pre_db |-> Absent,
     curr_snap |-> None, next_snap |-> None, should_refresh |-> FALSE]

\* the timestamps of the snapshot and whether it is expired
SnapshotTimestamps ==
    /\ ~snap.done
    /\ LET stamps == calc_snapshot_timestamps(db_file, snap.mtime)
       IN  snap' = [snap EXCEPT
               !.done = TRUE,
               !.pre_db = db_file,
               !.curr_snap = stamps.curr_snap,
               !.next_snap = stamps.next_snap,
               !.should_refresh = should_refresh_packages(stamps.curr_snap, stamps.next_snap,
                                                          db_file, snap.now)]
    /\ UNCHANGED <<db_file, bak_file, ext_file, load_call>>

(***************************************************************************)
(* Specifications: one per component, the other components at rest.        *)
(***************************************************************************)
\* the files of the catalog as found, the other components at rest
InitCatalog ==
    /\ db_file \in SnapshotFiles
    /\ bak_file \in BackupFiles
    /\ ext_file \in ExtFiles
    /\ load_call = NoLoad
    /\ scan_in = NoScanInput /\ scan_out = NoScan
    /\ upgrades_file = Empty /\ env_root = DefaultRoot
    /\ upd = NoUpdate /\ upg = IdleUpgrade /\ lookup = NoLookup
    /\ modules_dir = NoModulesDir /\ inst = IdleInstall /\ resolve = NoResolve
    /\ rem = NoRemoval
    /\ ext_call = NoExternal
    /\ roots = NoRoots
    /\ snap = NoSnapshotCall
    /\ dep_call = NoDepsCall
    /\ race = NoRace
    /\ bridge = NoBridge
    /\ diff_call = NoDifference
    /\ legacy_file = Absent

CatalogNext == LoadPackages /\ UNCHANGED <<scanVars, ledgerVars, installVars, rem, ext_call, roots, snap, dep_call, race, bridge, diff_call, legacy_file>>

SpecCatalog == InitCatalog /\ [][CatalogNext]_vars

\* a catalog and a listing of the modules directory
InitScan ==
    /\ db_file = Absent /\ bak_file = Absent /\ ext_file = Absent
    /\ load_call = NoLoad
    /\ scan_in \in ScanInputs
    /\ scan_out = NoScan
    /\ upgrades_file = Empty /\ env_root = DefaultRoot
    /\ upd = NoUpdate /\ upg = IdleUpgrade /\ lookup = NoLookup
    /\ modules_dir = NoModulesDir /\ inst = IdleInstall /\ resolve = NoResolve
    /\ rem = NoRemoval
    /\ ext_call = NoExternal
    /\ roots = NoRoots
    /\ snap = NoSnapshotCall
    /\ dep_call = NoDepsCall
    /\ race = NoRace
    /\ bridge = NoBridge
    /\ diff_call = NoDifference
    /\ legacy_file = Absent

ScanNext == Scan /\ UNCHANGED <<catalogVars, ledgerVars, installVars, rem, ext_call, roots, snap, dep_call, race, bridge, diff_call, legacy_file>>

SpecScan == InitScan /\ [][ScanNext]_vars

\* the environment and the available-upgrades file as found
InitLedger ==
    /\ db_file = Absent /\ bak_file = Absent /\ ext_file = Absent
    /\ load_call = NoLoad
    /\ scan_in = NoScanInput /\ scan_out = NoScan
    /\ env_root \in EnvValues
    /\ upgrades_file \in LedgerFiles(normpath(env_root))
    /\ upd = NoUpdate /\ upg = IdleUpgrade /\ lookup = NoLookup
    /\ modules_dir = NoModulesDir /\ inst = IdleInstall /\ resolve = NoResolve
    /\ rem = NoRemoval
    /\ ext_call = NoExternal
    /\ roots = NoRoots
    /\ snap = NoSnapshotCall
    /\ dep_call = NoDepsCall
    /\ race = NoRace
    /\ bridge = NoBridge
    /\ diff_call = NoDifference
    /\ legacy_file = Absent

LedgerNext ==
    \/ CheckForPackageUpdates /\ UNCHANGED <<catalogVars, scanVars, installVars, rem, ext_call, roots, snap, dep_call, race, bridge, diff_call, legacy_file>>
    \/ UpgradeBegin /\ UNCHANGED <<catalogVars, scanVars, installVars, rem, ext_call, roots, snap, dep_call, race, bridge, diff_call, legacy_file>>
    \/ UpgradePackage /\ UNCHANGED <<catalogVars, scanVars, installVars, rem, ext_call, roots, snap, dep_call, race, bridge, diff_call, legacy_file>>
    \/ UpgradeApps /\ UNCHANGED <<catalogVars, scanVars, installVars, rem, ext_call, roots, snap, dep_call, race, bridge, diff_call, legacy_file>>

SpecLedger == InitLedger /\ [][LedgerNext]_vars

\* the environment and the available-upgrades file, hand-edited ones included
InitLookup ==
    /\ db_file = Absent /\ bak_file = Absent /\ ext_file = Absent
    /\ load_call = NoLoad
    /\ scan_in = NoScanInput /\ scan_out = NoScan
    /\ env_root \in EnvValues
    /\ upgrades_file \in LookupFiles(normpath(env_root))
    /\ upd = NoUpdate /\ upg = IdleUpgrade /\ lookup = NoLookup
    /\ modules_dir = NoModulesDir /\ inst = IdleInstall /\ resolve = NoResolve
    /\ rem = NoRemoval
    /\ ext_call = NoExternal
    /\ roots = NoRoots
    /\ snap = NoSnapshotCall
    /\ dep_call = NoDepsCall
    /\ race = NoRace
    /\ bridge = NoBridge
    /\ diff_call = NoDifference
    /\ legacy_file = Absent

LookupNext == GetAvailableUpgrades /\ UNCHANGED <<catalogVars, scanVars, installVars, rem, ext_call, roots, snap, dep_call, race, bridge, diff_call, legacy_file>>

SpecLookup == InitLookup /\ [][LookupNext]_vars

\* a catalog and the titles of an install command
InitResolve ==
    /\ db_file = Absent /\ bak_file = Absent /\ ext_file = Absent
    /\ load_call = NoLoad
    /\ scan_in = NoScanInput /\ scan_out = NoScan
    /\ upgrades_file = Empty /\ env_root = DefaultRoot
    /\ upd = NoUpdate /\ upg = IdleUpgrade /\ lookup = NoLookup
    /\ modules_dir = NoModulesDir /\ inst = IdleInstall
    /\ \E c \in Scrapes \ {<<>>}, t \in SeqsUpTo(RequestTitles, MaxRequests) :
           resolve = [NoResolve EXCEPT !.packages = c, !.packages_to_install = t]
    /\ rem = NoRemoval
    /\ ext_call = NoExternal
    /\ roots = NoRoots
    /\ snap = NoSnapshotCall
    /\ dep_call = NoDepsCall
    /\ race = NoRace
    /\ bridge = NoBridge
    /\ diff_call = NoDifference
    /\ legacy_file = Absent

ResolveNext == GetInstallationCandidates /\ UNCHANGED <<catalogVars, scanVars, ledgerVars, rem, ext_call, roots, snap, dep_call, race, bridge, diff_call, legacy_file>>

SpecResolve == InitResolve /\ [][ResolveNext]_vars

\* the modules directory as found
InitInstall ==
    /\ db_file = Absent /\ bak_file = Absent /\ ext_file = Absent
    /\ load_call = NoLoad
    /\ scan_in = NoScanInput /\ scan_out = NoScan
    /\ upgrades_file = Empty /\ env_root = DefaultRoot
    /\ upd = NoUpdate /\ upg = IdleUpgrade /\ lookup = NoLookup
    /\ modules_dir \in ModulesDirs
    /\ inst = IdleInstall /\ resolve = NoResolve
    /\ rem = NoRemoval
    /\ ext_call = NoExternal
    /\ roots = NoRoots
    /\ snap = NoSnapshotCall
    /\ dep_call = NoDepsCall
    /\ race = NoRace
    /\ bridge = NoBridge
    /\ diff_call = NoDifference
    /\ legacy_file = Absent

InstallNext ==
    \/ InstallBegin /\ UNCHANGED <<catalogVars, scanVars, ledgerVars, resolve, rem, ext_call, roots, snap, dep_call, race, bridge, diff_call, legacy_file>>
    \/ InstallStep /\ UNCHANGED <<catalogVars, scanVars, ledgerVars, resolve, rem, ext_call, roots, snap, dep_call, race, bridge, diff_call, legacy_file>>

SpecInstall == InitInstall /\ [][InstallNext]_vars

\* an installed set, the modules directory holding it, and a remove command
InitRemove ==
    /\ db_file = Absent /\ bak_file = Absent /\ ext_file = Absent
    /\ load_call = NoLoad
    /\ scan_in = NoScanInput /\ scan_out = NoScan
    /\ upgrades_file = Empty /\ env_root = DefaultRoot
    /\ upd = NoUpdate /\ upg = IdleUpgrade /\ lookup = NoLookup
    /\ modules_dir = NoModulesDir /\ inst = IdleInstall /\ resolve = NoResolve
    /\ \E installed \in InstalledSets, other \in SUBSET {OTHER_DIR},
          titles \in SeqsUpTo(RemovalTitles, MaxRemovals), assume_yes \in BOOLEAN :
           rem = [NoRemoval EXCEPT
                     !.installed_packages = installed,
                     !.packages_to_remove = titles,
                     !.assume_yes = assume_yes,
                     !.dirs = {PathBasename(Flatten(installed)[i].directory) :
                                  i \in DOMAIN Flatten(installed)} \cup other]
    /\ ext_call = NoExternal
    /\ roots = NoRoots
    /\ snap = NoSnapshotCall
    /\ dep_call = NoDepsCall
    /\ race = NoRace
    /\ bridge = NoBridge
    /\ diff_call = NoDifference
    /\ legacy_file = Absent

RemoveNext ==
    RemovePackages /\ UNCHANGED <<catalogVars, scanVars, ledgerVars, installVars, ext_call, roots, snap, dep_call, race, bridge, diff_call, legacy_file>>

SpecRemove == InitRemove /\ [][RemoveNext]_vars

\* the external-packages file as found
InitExternal ==
    /\ db_file = Absent /\ bak_file = Absent
    /\ ext_file \in ExternalFiles
    /\ load_call = NoLoad
    /\ scan_in = NoScanInput /\ scan_out = NoScan
    /\ upgrades_file = Empty /\ env_root = DefaultRoot
    /\ upd = NoUpdate /\ upg = IdleUpgrade /\ lookup = NoLookup
    /\ modules_dir = NoModulesDir /\ inst = IdleInstall /\ resolve = NoResolve
    /\ rem = NoRemoval
    /\ ext_call = NoExternal
    /\ roots = NoRoots
    /\ snap = NoSnapshotCall
    /\ dep_call = NoDepsCall
    /\ race = NoRace
    /\ bridge = NoBridge
    /\ diff_call = NoDifference
    /\ legacy_file \in LegacyFiles

ExternalNext ==
    \/ Migrate
           /\ UNCHANGED <<db_file, bak_file, load_call, scanVars, ledgerVars, installVars, rem, roots, snap, dep_call, race, bridge, diff_call>>
    \/ AddExternalPackage
           /\ UNCHANGED <<db_file, bak_file, load_call, scanVars, ledgerVars, installVars, rem, roots, snap, dep_call, race, bridge, diff_call, legacy_file>>
    \/ RemoveExternalPackageSource
           /\ UNCHANGED <<db_file, bak_file, load_call, scanVars, ledgerVars, installVars, rem, roots, snap, dep_call, race, bridge, diff_call, legacy_file>>

SpecExternal == InitExternal /\ [][ExternalNext]_vars

\* the ledger as earlier invocations left it, and the root of this one
InitRoots ==
    /\ db_file = Absent /\ bak_file = Absent /\ ext_file = Absent
    /\ load_call = NoLoad
    /\ scan_in = NoScanInput /\ scan_out = NoScan
    /\ env_root \in EnvValues
    /\ upgrades_file \in RootFiles
    /\ upd = NoUpdate /\ upg = IdleUpgrade /\ lookup = NoLookup
    /\ modules_dir = NoModulesDir /\ inst = IdleInstall /\ resolve = NoResolve
    /\ rem = NoRemoval
    /\ ext_call = NoExternal
    /\ roots = [NoRoots EXCEPT !.seen = RootsIn(upgrades_file)]
    /\ snap = NoSnapshotCall
    /\ dep_call = NoDepsCall
    /\ race = NoRace
    /\ bridge = NoBridge
    /\ diff_call = NoDifference
    /\ legacy_file = Absent

RootsNext ==
    \/ RootsSwitch
           /\ UNCHANGED <<catalogVars, scanVars, upd, upg, lookup, installVars, rem, ext_call, snap, dep_call, race, bridge, diff_call, legacy_file>>
    \/ RootsLookup
           /\ UNCHANGED <<catalogVars, scanVars, upd, upg, lookup, installVars, rem, ext_call, snap, dep_call, race, bridge, diff_call, legacy_file>>
    \/ RootsPackageCheck
           /\ UNCHANGED <<catalogVars, scanVars, upd, upg, lookup, installVars, rem, ext_call, snap, dep_call, race, bridge, diff_call, legacy_file>>
    \/ RootsAppCheck
           /\ UNCHANGED <<catalogVars, scanVars, upd, upg, lookup, installVars, rem, ext_call, snap, dep_call, race, bridge, diff_call, legacy_file>>
    \/ RootsToolCheck
           /\ UNCHANGED <<catalogVars, scanVars, upd, upg, lookup, installVars, rem, ext_call, snap, dep_call, race, bridge, diff_call, legacy_file>>
    \/ RootsUpgrade
           /\ UNCHANGED <<catalogVars, scanVars, upd, upg, lookup, installVars, rem, ext_call, snap, dep_call, race, bridge, diff_call, legacy_file>>

SpecRoots == InitRoots /\ [][RootsNext]_vars

\* the snapshot file as found, its modification time and the time of the call
InitSnapshot ==
    /\ db_file \in SnapshotFiles
    /\ bak_file \in BackupFiles
    /\ ext_file = Absent
    /\ load_call = NoLoad
    /\ scan_in = NoScanInput /\ scan_out = NoScan
    /\ upgrades_file = Empty /\ env_root = DefaultRoot
    /\ upd = NoUpdate /\ upg = IdleUpgrade /\ lookup = NoLookup
    /\ modules_dir = NoModulesDir /\ inst = IdleInstall /\ resolve = NoResolve
    /\ rem = NoRemoval
    /\ ext_call = NoExternal
    /\ roots = NoRoots
    /\ \E mtime \in ModificationTimes, now \in CallTimes :
           snap = [NoSnapshotCall EXCEPT !.mtime = mtime, !.now = now]
    /\ dep_call = NoDepsCall
    /\ race = NoRace
    /\ bridge = NoBridge
    /\ diff_call = NoDifference
    /\ legacy_file = Absent

SnapshotNext ==
    SnapshotTimestamps
        /\ UNCHANGED <<scanVars, ledgerVars, installVars, rem, ext_call, roots, dep_call, race, bridge, diff_call, legacy_file>>

SpecSnapshot == InitSnapshot /\ [][SnapshotNext]_vars

(***************************************************************************)
(* A call of install_dependencies in a package directory.                  *)
(***************************************************************************)
InstallDependencies ==
    /\ ~dep_call.called
    /\ LET result == install_dependencies(dep_call.dep)
       IN  dep_call' = [dep_call EXCEPT !.called = TRUE,
                                        !.error = result.error,
                                        !.ran = result.ran]

InitDependencies ==
    /\ db_file = Absent
    /\ bak_file = Absent
    /\ ext_file = Absent
    /\ load_call = NoLoad
    /\ scan_in = NoScanInput /\ scan_out = NoScan
    /\ upgrades_file = Empty /\ env_root = DefaultRoot
    /\ upd = NoUpdate /\ upg = IdleUpgrade /\ lookup = NoLookup
    /\ modules_dir = NoModulesDir /\ inst = IdleInstall /\ resolve = NoResolve
    /\ rem = NoRemoval
    /\ ext_call = NoExternal
    /\ roots = NoRoots
    /\ snap = NoSnapshotCall
    /\ \E dep \in DepInputs : dep_call = [NoDepsCall EXCEPT !.dep = dep]
    /\ race = NoRace
    /\ bridge = NoBridge
    /\ diff_call = NoDifference
    /\ legacy_file = Absent

DependenciesNext ==
    InstallDependencies
        /\ UNCHANGED <<catalogVars, scanVars, ledgerVars, installVars, rem, ext_call, roots, snap, race, bridge, diff_call, legacy_file>>

SpecDependencies == InitDependencies /\ [][DependenciesNext]_vars

\* the ledger as earlier invocations left it, and two invocations about to start
InitRace ==
    /\ db_file = Absent
    /\ bak_file = Absent
    /\ ext_file = Absent
    /\ load_call = NoLoad
    /\ scan_in = NoScanInput /\ scan_out = NoScan
    /\ upgrades_file \in RootFiles /\ env_root = DefaultRoot
    /\ upd = NoUpdate /\ upg = IdleUpgrade /\ lookup = NoLookup
    /\ modules_dir = NoModulesDir /\ inst = IdleInstall /\ resolve = NoResolve
    /\ rem = NoRemoval
    /\ ext_call = NoExternal
    /\ roots = NoRoots
    /\ snap = NoSnapshotCall
    /\ dep_call = NoDepsCall
    /\ race = NoRace
    /\ bridge = NoBridge
    /\ diff_call = NoDifference
    /\ legacy_file = Absent

RaceNext ==
    \/ \E p \in Procs : RaceRead(p)
           /\ UNCHANGED <<catalogVars, scanVars, env_root, upd, upg, lookup, installVars, rem, ext_call, roots, snap, dep_call, bridge, diff_call, legacy_file>>
    \/ \E p \in Procs : RaceWriteApp(p)
           /\ UNCHANGED <<catalogVars, scanVars, env_root, upd, upg, lookup, installVars, rem, ext_call, roots, snap, dep_call, bridge, diff_call, legacy_file>>
    \/ \E p \in Procs : RaceWritePackages(p)
           /\ UNCHANGED <<catalogVars, scanVars, env_root, upd, upg, lookup, installVars, rem, ext_call, roots, snap, dep_call, bridge, diff_call, legacy_file>>
    \/ \E p \in Procs : RaceWriteUpgrade(p)
           /\ UNCHANGED <<catalogVars, scanVars, env_root, upd, upg, lookup, installVars, rem, ext_call, roots, snap, dep_call, bridge, diff_call, legacy_file>>

SpecRace == InitRace /\ [][RaceNext]_vars

\* how client.connect ends: the connection is made, OSError or BrokenPipeError is
\* raised, or an exception of another class is raised
ConnectOutcomes == {"connected", "OSError", "other"}

\* the connect_error handler, which the client runs when the connection is
\* refused: error_msg reports it, and client.connect then raises
BridgeConnectError ==
    /\ bridge.pc = "start"
    /\ bridge' = [bridge EXCEPT !.pc = "refused", !.refused = TRUE]

\* the try block around client.connect: OSError and BrokenPipeError are caught and
\* logged as a warning, any other exception leaves the function
BridgeConnect ==
    /\ bridge.pc \in {"start", "refused"}
    /\ \E outcome \in ConnectOutcomes :
        /\ bridge.pc = "refused" => outcome # "connected"
        /\ bridge' = CASE outcome = "connected" ->
                             [bridge EXCEPT !.pc = "connected", !.connected = TRUE]
                        [] outcome = "OSError" ->
                             [bridge EXCEPT !.pc = "returned", !.warned = TRUE]
                        [] outcome = "other" ->
                             [bridge EXCEPT !.pc = "raised"]

\* the connect handler: the request of the operation is emitted
BridgeOnConnect ==
    /\ bridge.pc = "connected"
    /\ bridge' = [bridge EXCEPT !.pc = "waiting", !.emitted = RequestOf(bridge.op)]

\* the disconnect handler: the end of the connection is logged
BridgeOnDisconnect ==
    /\ bridge.pc = "handled"
    /\ ~bridge.connected
    /\ ~bridge.closed
    /\ bridge' = [bridge EXCEPT !.closed = TRUE]

\* the terminal event arrives and its handler runs
BridgeReceive ==
    /\ bridge.pc = "waiting"
    /\ \E data \in PayloadsOf(bridge.op, bridge.names) :
        LET r == CASE bridge.op = "list" -> active_modules(data)
                   [] bridge.op = "hide" -> modules_hidden(data)
                   [] bridge.op = "show" -> modules_shown(data)
        IN  bridge' = [bridge EXCEPT !.pc = "handled", !.event = TerminalOf(bridge.op),
                                     !.data = data, !.reported = r.reported,
                                     !.printed = r.printed, !.raised = r.raised,
                                     !.connected = ~r.disconnected]

\* one of the three operations about to start
InitBridge ==
    /\ db_file = Absent
    /\ bak_file = Absent
    /\ ext_file = Absent
    /\ load_call = NoLoad
    /\ scan_in = NoScanInput /\ scan_out = NoScan
    /\ upgrades_file = Empty /\ env_root = DefaultRoot
    /\ upd = NoUpdate /\ upg = IdleUpgrade /\ lookup = NoLookup
    /\ modules_dir = NoModulesDir /\ inst = IdleInstall /\ resolve = NoResolve
    /\ rem = NoRemoval
    /\ ext_call = NoExternal
    /\ roots = NoRoots
    /\ snap = NoSnapshotCall
    /\ dep_call = NoDepsCall
    /\ race = NoRace
    /\ \E op \in BridgeOps, names \in NameLists :
           /\ op = "list" => names = <<>>
           /\ bridge = [NoBridge EXCEPT !.pc = "start", !.op = op, !.names = names]
    /\ diff_call = NoDifference
    /\ legacy_file = Absent

BridgeNext ==
    \/ BridgeConnectError
           /\ UNCHANGED <<catalogVars, scanVars, ledgerVars, installVars, rem, ext_call, roots, snap, dep_call, race, diff_call, legacy_file>>
    \/ BridgeConnect
           /\ UNCHANGED <<catalogVars, scanVars, ledgerVars, installVars, rem, ext_call, roots, snap, dep_call, race, diff_call, legacy_file>>
    \/ BridgeOnConnect
           /\ UNCHANGED <<catalogVars, scanVars, ledgerVars, installVars, rem, ext_call, roots, snap, dep_call, race, diff_call, legacy_file>>
    \/ BridgeOnDisconnect
           /\ UNCHANGED <<catalogVars, scanVars, ledgerVars, installVars, rem, ext_call, roots, snap, dep_call, race, diff_call, legacy_file>>
    \/ BridgeReceive
           /\ UNCHANGED <<catalogVars, scanVars, ledgerVars, installVars, rem, ext_call, roots, snap, dep_call, race, diff_call, legacy_file>>

SpecBridge == InitBridge /\ [][BridgeNext]_vars

GetDifferenceOfPackages ==
    /\ ~diff_call.done
    /\ LET r == get_difference_of_packages(diff_call.original, diff_call.exclude)
       IN  diff_call' = [diff_call EXCEPT !.done = TRUE, !.raised = r.raised,
                                          !.difference = r.difference]

\* any two mappings
InitDifference ==
    /\ db_file = Absent
    /\ bak_file = Absent
    /\ ext_file = Absent
    /\ load_call = NoLoad
    /\ scan_in = NoScanInput /\ scan_out = NoScan
    /\ upgrades_file = Empty /\ env_root = DefaultRoot
    /\ upd = NoUpdate /\ upg = IdleUpgrade /\ lookup = NoLookup
    /\ modules_dir = NoModulesDir /\ inst = IdleInstall /\ resolve = NoResolve
    /\ rem = NoRemoval
    /\ ext_call = NoExternal
    /\ roots = NoRoots
    /\ snap = NoSnapshotCall
    /\ dep_call = NoDepsCall
    /\ race = NoRace
    /\ bridge = NoBridge
    /\ \E original \in DiffMappings, exclude \in DiffMappings :
           diff_call = [NoDifference EXCEPT !.original = original, !.exclude = exclude]
    /\ legacy_file = Absent

DifferenceNext ==
    GetDifferenceOfPackages
        /\ UNCHANGED <<catalogVars, scanVars, ledgerVars, installVars, rem, ext_call, roots, snap, dep_call, race, bridge, legacy_file>>

SpecDifference == InitDifference /\ [][DifferenceNext]_vars

(***************************************************************************)
(* Properties of the ledger.                                               *)
(***************************************************************************)
LedgerRoot == normpath(env_root)

\* the pending list the file holds for the current root
PersistedPending == Get(Get(upgrades_file.doc, LedgerRoot), PACKAGES)

\* the upgrade ran to its end with no selection and every pending package confirmed
WholeBatchUpgraded ==
    /\ upg.pc = "done"
    /\ upg.selection = <<>>
    /\ upg.pre_pending # <<>>
    /\ upg.confirmed = upg.pre_pending

\* C1: after an upgrade with no selection and every pending package confirmed, the
\* pending list persisted for the root is the prior list minus the packages whose
\* pull and dependency install succeeded (exit code 0), in the original order.
PartialBatchUpgrade ==
    WholeBatchUpgraded =>
        /\ upgrades_file.kind = "json"
        /\ HasKey(upgrades_file.doc, LedgerRoot)
        /\ PersistedPending =
               SerializeFullAll(SelectIdx(upg.pre_pending,
                                          {i \in DOMAIN upg.pre_pending : upg.log[i].failed}, 1))

\* C3: when check_for_package_updates finds nothing installed for the current root,
\* it returns an empty list, and afterwards the ledger file holds an entry for the
\* root with an empty packages list and a false MagicMirror flag.
LedgerResetOnNoInstalls ==
    (upd.done /\ ~upd.any_installed) =>
        /\ upd.upgradeable = <<>>
        /\ upgrades_file.kind = "json"
        /\ HasKey(upgrades_file.doc, LedgerRoot)
        /\ Get(Get(upgrades_file.doc, LedgerRoot), PACKAGES) = <<>>
        /\ Get(Get(upgrades_file.doc, LedgerRoot), MAGICMIRROR) = FALSE

(***************************************************************************)
(* Properties of the installation.                                         *)
(***************************************************************************)
\* C2: a confirmed candidate whose title is among the known module directories is
\* reported as a conflict and is not cloned, and every other confirmed candidate
\* of the batch is cloned.
InstallConflictSkipsCandidate ==
    \A i \in DOMAIN inst.log :
        /\ inst.log[i].known => inst.log[i].conflict /\ ~inst.log[i].clone_called
        /\ ~inst.log[i].known => inst.log[i].clone_called

(***************************************************************************)
(* Properties of the catalog.                                              *)
(***************************************************************************)
Loaded == load_call.op = "load"

\* the fetch of the call, had it run, failed: a network error or an empty result
FetchFails == load_call.net.kind = "neterror" \/ load_call.net.catalog = <<>>

RefreshOverSnapshot == Loaded /\ load_call.force_refresh /\ ExistsNonEmpty(load_call.pre_db)

\* C4: after load_packages(force_refresh=True) over an existing non-empty snapshot
\* with a fetch that returns a non-empty catalog, the .bak file holds what the
\* snapshot file held before the call.
BackupBeforeOverwrite ==
    (RefreshOverSnapshot /\ ~FetchFails) => bak_file = load_call.pre_db

\* a refresh that replaced the snapshot and the backup
SnapshotReplaced ==
    /\ RefreshOverSnapshot /\ ~FetchFails
    /\ db_file # load_call.pre_db
    /\ load_call.pre_bak # load_call.pre_db

\* C5: when a non-empty snapshot exists and the fetch fails (network error or
\* empty result), load_packages(force_refresh=True) leaves the snapshot file as it
\* was.
NoDestructiveRefresh ==
    (RefreshOverSnapshot /\ FetchFails) => db_file = load_call.pre_db

\* a refresh over a snapshot whose fetch came back empty
RefreshCameBackEmpty ==
    /\ RefreshOverSnapshot
    /\ load_call.net.kind = "page" /\ load_call.net.catalog = <<>>
    /\ load_call.fetched

\* C6: a load without force_refresh on an existing snapshot, and a forced load
\* whose fetch fails, both leave the .bak file exactly as it was.
BackupOnlyOnSuccessfulRefresh ==
    (Loaded /\ ExistsNonEmpty(load_call.pre_db)
            /\ (~load_call.force_refresh \/ FetchFails)) =>
        bak_file = load_call.pre_bak

\* the categories and packages a snapshot file stores, field by field
StoredIn(f, packages) ==
    /\ Len(packages) >= Len(f.doc)
    /\ \A i \in DOMAIN f.doc :
        /\ packages[i].key = f.doc[i].key
        /\ Len(packages[i].val) = Len(f.doc[i].val)
        /\ \A j \in DOMAIN f.doc[i].val :
            /\ packages[i].val[j].title = Get(f.doc[i].val[j], "title")
            /\ packages[i].val[j].author = Get(f.doc[i].val[j], "author")
            /\ packages[i].val[j].repository = Get(f.doc[i].val[j], "repository")
            /\ packages[i].val[j].description = Get(f.doc[i].val[j], "description")
    /\ \A i \in DOMAIN packages : i > Len(f.doc) => packages[i].key = EXTERNAL_PACKAGES

\* C7: when load_packages(force_refresh=True) runs over an existing non-empty
\* snapshot and the fetch fails for any reason, the error is reported, the process
\* does not terminate, and the call returns the catalog of the stale snapshot.
FallbackToStale ==
    (RefreshOverSnapshot /\ FetchFails) =>
        /\ load_call.reported
        /\ ~load_call.exited
        /\ ~load_call.raised
        /\ StoredIn(load_call.pre_db, load_call.packages)

\* C8: when no snapshot exists (or it is zero-length) and the fetch fails, by a
\* network error or an empty result, load_packages stops the process and returns
\* no empty catalog to its caller.
FatalFirstLoad ==
    (Loaded /\ ~ExistsNonEmpty(load_call.pre_db) /\ FetchFails) => load_call.exited

\* C9: load_packages(force_refresh=False) over an existing non-empty snapshot does
\* not fetch, leaves the snapshot file unchanged, and returns the categories and
\* packages stored in it.
CachedLoad ==
    (Loaded /\ ~load_call.force_refresh /\ ExistsNonEmpty(load_call.pre_db)) =>
        /\ ~load_call.fetched
        /\ ~load_call.exited
        /\ ~load_call.raised
        /\ db_file = load_call.pre_db
        /\ StoredIn(load_call.pre_db, load_call.packages)

\* a cached load while the network had a different catalog to offer
CachedLoadDespiteNews ==
    /\ Loaded /\ ~load_call.force_refresh /\ ExistsNonEmpty(load_call.pre_db)
    /\ load_call.net.kind = "page"
    /\ load_call.net.catalog # <<>>
    /\ DumpCatalog(load_call.net.catalog) # load_call.pre_db
    /\ load_call.packages # <<>>

(***************************************************************************)
(* Properties of the scan.                                                 *)
(***************************************************************************)
\* the git clones of the listing whose remote URL could be read
ClonesIn(entries) ==
    {i \in DOMAIN entries :
        entries[i].is_dir /\ entries[i].has_git /\ entries[i].remote.code = 0}

\* the clones whose trimmed remote URL is the repository of package
ClonesMatching(package, entries) ==
    {i \in ClonesIn(entries) : Strip(entries[i].remote.stdout) = package.repository}

\* the places where package, of category c, appears in the result
Appearances(package, c, installed) ==
    IF ~HasKey(installed, c) THEN {}
    ELSE {Get(installed, c)[k] : k \in {k \in DOMAIN Get(installed, c) :
              /\ Get(installed, c)[k].title = package.title
              /\ Get(installed, c)[k].repository = package.repository}}

\* C10: a package of the catalog appears in the result of get_installed_packages
\* if and only if its repository equals the trimmed remote URL of some clone of
\* the modules directory, and it then carries the directory of such a clone;
\* nothing else appears.
InstalledResolution ==
    scan_out.done =>
        /\ \A i \in DOMAIN scan_in.packages : \A j \in DOMAIN scan_in.packages[i].val :
            LET package == scan_in.packages[i].val[j]
                clones == ClonesMatching(package, scan_in.entries)
                seen == Appearances(package, scan_in.packages[i].key, scan_out.installed)
            IN  /\ (seen # {}) <=> (clones # {})
                /\ \A p \in seen :
                    \E k \in clones :
                        p.directory = PathJoin(ModulesDirOf(ScanRoot), scan_in.entries[k].name)
        /\ \A i \in DOMAIN scan_out.installed : \A k \in DOMAIN scan_out.installed[i].val :
            \E j \in DOMAIN Get(scan_in.packages, scan_out.installed[i].key) :
                LET package == Get(scan_in.packages, scan_out.installed[i].key)[j]
                IN  /\ package.title = scan_out.installed[i].val[k].title
                    /\ package.repository = scan_out.installed[i].val[k].repository

\* a scan that resolved one package of the catalog and left another one out
SomeResolvedSomeAbsent ==
    /\ scan_out.done
    /\ \E i \in DOMAIN scan_out.installed : scan_out.installed[i].val # <<>>
    /\ \E i \in DOMAIN scan_in.packages : \E j \in DOMAIN scan_in.packages[i].val :
        Appearances(scan_in.packages[i].val[j], scan_in.packages[i].key,
                    scan_out.installed) = {}

\* C11: get_installed_packages returns a mapping whose keys are exactly the
\* categories of the catalog, in catalog order, also when the modules directory
\* holds no directory at all (every category then maps to an empty list).
ScanResultShape ==
    scan_out.done => Keys(scan_out.installed) = Keys(scan_in.packages)

(***************************************************************************)
(* Properties of get_available_upgrades.                                   *)
(***************************************************************************)
\* {tool flag: false, current root: {packages: [], app flag: false}}
DefaultShaped(doc, root) ==
    doc = <<[key |-> "mmpm", val |-> FALSE],
            [key |-> root, val |-> <<[key |-> "packages", val |-> <<>>],
                                     [key |-> "MagicMirror", val |-> FALSE]>>]>>

\* C12: when the file does not parse as JSON, get_available_upgrades returns the
\* default document {mmpm: false, <root>: {packages: [], MagicMirror: false}} and
\* the file holds that same document when the call returns.
LedgerResetOnCorruption ==
    (lookup.done /\ lookup.pre_file.kind # "json") =>
        /\ DefaultShaped(lookup.upgrades, LedgerRoot)
        /\ upgrades_file.kind = "json"
        /\ upgrades_file.doc = lookup.upgrades

\* a lookup of a file holding text that is no JSON
CorruptFileLookedUp ==
    /\ lookup.done
    /\ lookup.pre_file.kind = "malformed"
    /\ upgrades_file # lookup.pre_file

\* C13: when the file is a valid document with no key for the current root,
\* get_available_upgrades adds the default entry for the root, persists it, and
\* leaves the tool flag and the entry of every other root as they were.
LazyRootCreation ==
    (lookup.done /\ lookup.pre_file.kind = "json"
                 /\ ~HasKey(lookup.pre_file.doc, LedgerRoot)) =>
        /\ HasKey(lookup.upgrades, LedgerRoot)
        /\ Get(lookup.upgrades, LedgerRoot) =
               <<[key |-> "packages", val |-> <<>>], [key |-> "MagicMirror", val |-> FALSE]>>
        /\ upgrades_file.kind = "json"
        /\ upgrades_file.doc = lookup.upgrades
        /\ Range(Keys(lookup.upgrades)) = Range(Keys(lookup.pre_file.doc)) \cup {LedgerRoot}
        /\ \A i \in DOMAIN lookup.pre_file.doc :
               Get(lookup.upgrades, lookup.pre_file.doc[i].key) = lookup.pre_file.doc[i].val

\* a lookup that added the root to a document holding the tool flag and another root
RootAddedBesideAnother ==
    /\ lookup.done
    /\ lookup.pre_file.kind = "json"
    /\ ~HasKey(lookup.pre_file.doc, LedgerRoot)
    /\ HasKey(lookup.pre_file.doc, OtherRoot(LedgerRoot))
    /\ HasKey(lookup.pre_file.doc, "mmpm")
    /\ HasKey(upgrades_file.doc, LedgerRoot)

\* C14: for every file content that is a JSON object, the document returned by
\* get_available_upgrades holds the tool key and an entry for the current root
\* with both a packages list and the MagicMirror flag.
LedgerShape ==
    (lookup.done /\ lookup.pre_file.kind = "json") =>
        /\ HasKey(lookup.upgrades, "mmpm")
        /\ HasKey(lookup.upgrades, LedgerRoot)
        /\ HasKey(Get(lookup.upgrades, LedgerRoot), "packages")
        /\ HasKey(Get(lookup.upgrades, LedgerRoot), "MagicMirror")

(***************************************************************************)
(* Properties of check_for_package_updates.                                *)
(***************************************************************************)
\* C15: after check_for_package_updates with at least one installed package, the
\* packages list the file holds for the current root is the returned list, and
\* the tool flag, the MagicMirror flag of the root and the entries of all other
\* roots are as they were.
RecordingTouchesOnlyPackages ==
    (upd.done /\ upd.any_installed) =>
        /\ upgrades_file.kind = "json"
        /\ HasKey(upgrades_file.doc, LedgerRoot)
        /\ PersistedPending =
               [i \in DOMAIN upd.upgradeable |->
                   <<[key |-> "title", val |-> upd.upgradeable[i].title],
                     [key |-> "author", val |-> upd.upgradeable[i].author],
                     [key |-> "description", val |-> upd.upgradeable[i].description],
                     [key |-> "repository", val |-> upd.upgradeable[i].repository],
                     [key |-> "directory", val |-> upd.upgradeable[i].directory]>>]
        /\ upd.pre_file.kind = "json" =>
            /\ \A i \in DOMAIN upd.pre_file.doc :
                upd.pre_file.doc[i].key # LedgerRoot =>
                    /\ HasKey(upgrades_file.doc, upd.pre_file.doc[i].key)
                    /\ Get(upgrades_file.doc, upd.pre_file.doc[i].key) = upd.pre_file.doc[i].val
            /\ Range(Keys(upgrades_file.doc)) = Range(Keys(upd.pre_file.doc)) \cup {LedgerRoot}
            /\ HasKey(upd.pre_file.doc, LedgerRoot) =>
                Get(Get(upgrades_file.doc, LedgerRoot), MAGICMIRROR)
                    = Get(Get(upd.pre_file.doc, LedgerRoot), MAGICMIRROR)

\* candidates were recorded over another pending list, beside a true MagicMirror
\* flag and the entry of another root
CandidatesRecorded ==
    /\ upd.done /\ upd.any_installed
    /\ upd.upgradeable # <<>>
    /\ upd.pre_file.kind = "json"
    /\ HasKey(upd.pre_file.doc, LedgerRoot)
    /\ HasKey(upd.pre_file.doc, OtherRoot(LedgerRoot))
    /\ Get(Get(upd.pre_file.doc, LedgerRoot), MAGICMIRROR) = TRUE
    /\ Get(Get(upd.pre_file.doc, LedgerRoot), PACKAGES) # PersistedPending

\* C16: the list returned by check_for_package_updates holds exactly the installed
\* packages whose dry-run fetch exited with code zero and produced output (git
\* reports what a fetch would bring on its error stream), in the order of the
\* installed set; a package whose probe exits non-zero is left out and the
\* packages after it are still probed.
UpdateCandidateClassification ==
    upd.done =>
        upd.upgradeable =
            SelectIdx(upd.installed,
                      {i \in DOMAIN upd.installed :
                          /\ upd.probes[i].code = 0
                          /\ (upd.probes[i].stdout # <<>> \/ upd.probes[i].stderr # <<>>)}, 1)

\* a probe failed and a package after it was still classified as upgradable
ProbedPastAFailure ==
    /\ upd.done
    /\ \E j, k \in DOMAIN upd.installed :
        /\ j < k
        /\ upd.probes[j].code # 0
        /\ upd.probes[k].code = 0 /\ upd.probes[k].stderr # <<>>
        /\ upd.installed[k] \in Range(upd.upgradeable)
        /\ upd.installed[j] \notin Range(upd.upgradeable)

(***************************************************************************)
(* Properties of upgrade_available.                                        *)
(***************************************************************************)
\* C17: as soon as the upgrade of one package has succeeded, and before the next
\* one starts, the file no longer lists that package as pending for the root.
ImmediateRemoval ==
    upg.pc \in {"packages", "apps", "crashed"} =>
        \A i \in DOMAIN upg.log :
            ~upg.log[i].failed =>
                serialize_full(upg.log[i].package) \notin Range(PersistedPending)

\* C18: after upgrade_available, the tool flag (the MagicMirror flag of the root)
\* has gone from true to false only if the upgrade of the tool (of MagicMirror)
\* was confirmed and completed without failure.
FlagsClearedOnlyOnSuccess ==
    upg.pc = "done" =>
        /\ (upg.apps.pre_mmpm /\ ~Get(upgrades_file.doc, MMPM)) =>
               (upg.mmpm /\ ~upg.apps.mmpm_failed)
        /\ (upg.apps.pre_mm /\ ~Get(Get(upgrades_file.doc, LedgerRoot), MAGICMIRROR)) =>
               (upg.magicmirror /\ ~upg.apps.mm_failed)

\* the pending packages of the root that the selection names, each once
NamedPending ==
    SelectIdx(upg.pre_pending,
              {i \in DOMAIN upg.pre_pending : upg.pre_pending[i].title \in Range(upg.selection)}, 1)

\* C19: with a non-empty selection of titles and assume_yes, every pending package
\* of the root whose title is in the selection is upgraded exactly once, and no
\* other pending package is upgraded.
UpgradeByExplicitTitles ==
    (upg.pc # "idle" /\ upg.selection # <<>> /\ upg.assume_yes) =>
        /\ upg.confirmed = NamedPending
        /\ upg.pc = "done" => [i \in DOMAIN upg.log |-> upg.log[i].package] = NamedPending

(***************************************************************************)
(* Properties of get_installation_candidates.                              *)
(***************************************************************************)
\* the packages of the catalog, category after category
CatalogInOrder == Flatten(resolve.packages)

\* the pairs (position in the request, position in the catalog) of equal titles
TitleHits ==
    {h \in (DOMAIN resolve.packages_to_install) \X (DOMAIN CatalogInOrder) :
        CatalogInOrder[h[2]].title = resolve.packages_to_install[h[1]]}

\* the place of a hit in request order, then catalog order
HitRank(h) ==
    Cardinality({g \in TitleHits : g[1] < h[1] \/ (g[1] = h[1] /\ g[2] <= h[2])})

\* C20: get_installation_candidates returns, for each requested title in request
\* order, every catalog package whose title is exactly equal to it, in catalog
\* order; a title in several categories yields one entry per occurrence, and a
\* title matching nothing yields no entry and does not stop the resolution.
InstallTargetResolution ==
    resolve.done =>
        /\ Len(resolve.candidates) = Cardinality(TitleHits)
        /\ \A h \in TitleHits : resolve.candidates[HitRank(h)] = CatalogInOrder[h[2]]

\* an unknown title came first, and the title after it was found in two categories
ResolvedPastUnknownTitle ==
    /\ resolve.done
    /\ Len(resolve.packages_to_install) = 2
    /\ resolve.unmatched = <<resolve.packages_to_install[1]>>
    /\ Len(resolve.candidates) = 2
    /\ Len(resolve.packages) = 2

(***************************************************************************)
(* Properties of install_packages and install_package.                     *)
(***************************************************************************)
\* install_packages ran past its early returns and returned
InstallReturned ==
    inst.pc = "done" /\ inst.modules_dir_found /\ inst.candidates # <<>>

\* the candidate of a log entry was cloned and every dependency step exited zero
InstalledWell(entry) ==
    entry.interrupted = "none" /\ entry.clone_code = 0 /\ ~entry.deps_failed

\* C21: given an existing modules directory and a non-empty candidate list,
\* install_packages returns true if and only if at least one candidate was cloned
\* and had its dependencies installed successfully.
BatchLevelInstallResult ==
    InstallReturned =>
        (inst.ret <=> \E i \in DOMAIN inst.log : InstalledWell(inst.log[i]))

\* C22: when the clone succeeds and the dependency step fails, install_package
\* reports failure and the cloned directory exists afterwards if and only if the
\* user declined the deletion prompt; when the clone fails, the dependency step is
\* not run and no deletion prompt is shown.
DependencyFailureRecovery ==
    \A i \in DOMAIN inst.log :
        LET entry == inst.log[i]
        IN  entry.interrupted = "none" =>
                /\ entry.clone_code = 0 /\ entry.deps_failed =>
                       /\ ~entry.success
                       /\ entry.state_after = "full" <=> entry.declined
                /\ entry.clone_code # 0 => ~entry.ran_deps /\ ~entry.prompted

\* C23: after a keyboard interrupt during the clone or the dependency steps of a
\* candidate, the candidate's directory is gone, the process has exited with the
\* non-zero status 127, and the interrupted candidate is the last one handled.
InterruptDuringInstall ==
    \A i \in DOMAIN inst.log :
        inst.log[i].interrupted # "none" =>
            /\ modules_dir.dirs[inst.log[i].title] = "none"
            /\ inst.pc = "exited"
            /\ inst.exit_code = 127 /\ inst.exit_code # 0
            /\ i = Len(inst.log)
            /\ inst.idx = inst.log[i].pos

\* the first candidate was installed and the second, of another title, was
\* interrupted during its dependency steps
InterruptedMidBatch ==
    /\ Len(inst.log) = 2
    /\ inst.log[1].success
    /\ inst.log[2].interrupted = "deps"
    /\ inst.log[2].title # inst.log[1].title
    /\ inst.pc = "exited"

(***************************************************************************)
(* Properties of remove_packages.                                          *)
(***************************************************************************)
Removed == rem.pc # "idle"

\* the directories for which some prompt was answered with yes
ConfirmedDirs ==
    {rem.prompts[i].dir_name : i \in {j \in DOMAIN rem.prompts :
                                          rem.prompts[j].response \in {"y", "assumed"}}}

\* the requested titles that are the directory name of no installed package
UnmatchedTitles ==
    {t \in Range(rem.packages_to_remove) :
        \A i \in DOMAIN Flatten(rem.installed_packages) :
            PathBasename(Flatten(rem.installed_packages)[i].directory) # t}

\* C24: when the user interrupts at a yes/no prompt, the process terminates with a
\* non-zero exit status; the interrupt is not an answer that lets the operation
\* continue.
InterruptAtPromptExits ==
    (\E i \in DOMAIN rem.prompts : rem.prompts[i].response = "interrupt") =>
        rem.pc = "exited" /\ rem.exit_code # 0

\* C25: remove_packages deletes exactly the directories of installed packages whose
\* directory name is among the requested titles and whose removal was confirmed,
\* and reports as not installed exactly the requested titles that matched no
\* installed package.
RemovalSemantics ==
    Removed =>
        /\ rem.dirs = rem.pre_dirs \ ConfirmedDirs
        /\ Range(rem.not_installed) = UnmatchedTitles

\* C39: remove_packages attempts to delete each directory at most once, also when
\* the same installed directory is reached through more than one entry of the
\* installed set or a title is requested twice, so a confirmed removal never
\* fails on an already-deleted directory.
NoDoubleDeletion ==
    Removed =>
        /\ \A i, j \in DOMAIN rem.marked_for_removal :
               rem.marked_for_removal[i] = rem.marked_for_removal[j] => i = j
        /\ rem.pc # "raised"

(***************************************************************************)
(* Properties of the external-packages file.                               *)
(***************************************************************************)
\* the package list a file holds: none when the file is absent or empty
ExternalList(file) ==
    IF file.kind = "json" THEN Get(file.doc, EXTERNAL_PACKAGES) ELSE <<>>

\* a package was added and then removed by its title, every prompt confirmed,
\* with no migration between the two
AddedThenRemoved ==
    /\ ext_call.pc = "removed"
    /\ ext_call.added
    /\ ~ext_call.migrated
    /\ ext_call.titles = <<ext_call.package.title>>
    /\ \A i \in DOMAIN ext_call.prompts : ext_call.prompts[i] \in {"y", "assumed"}

\* C26: for any prior state of the external-packages file, adding an external
\* package and then removing it by title, confirmed, leaves the package list of
\* the file equal to the prior list.
ExternalRoundTrip ==
    AddedThenRemoved => ExternalList(ext_file) = ExternalList(ext_call.prior)

(***************************************************************************)
(* Properties of sequences of ledger operations.                           *)
(***************************************************************************)
\* C27: across any sequence of ledger reads, update checks, upgrades and resets
\* run under possibly different roots, a root that had an entry in the ledger file
\* at some point has one at every later point.
RootsNeverPruned == roots.seen \subseteq RootsIn(upgrades_file)

(***************************************************************************)
(* Properties of the snapshot timestamps.                                  *)
(***************************************************************************)
\* C28: the expiration time is the modification time of the snapshot file plus
\* 21600 seconds, the snapshot counts as expired exactly when the file does not
\* exist or the current time is at or past the expiration time, and the
\* computation neither fetches nor modifies the snapshot.
SnapshotExpiration ==
    snap.done =>
        /\ snap.pre_db.kind # "absent" =>
               /\ snap.curr_snap = [some |-> TRUE, t |-> snap.mtime]
               /\ snap.next_snap = [some |-> TRUE, t |-> snap.mtime + 21600]
        /\ snap.should_refresh <=>
               (snap.pre_db.kind = "absent" \/ snap.now >= snap.mtime + 21600)
        /\ db_file = snap.pre_db
        /\ load_call.op # "load"

\* the timestamps were computed at the very second at which the snapshot expires
ComputedAtExpiration ==
    /\ snap.done
    /\ snap.pre_db.kind = "json"
    /\ snap.now = snap.mtime + 21600
    /\ snap.should_refresh

(***************************************************************************)
(* Properties of the external category.                                    *)
(***************************************************************************)
\* the catalog the call loaded: what the fetch brought, else what the snapshot held
LoadedCatalog ==
    IF load_call.fetched /\ load_call.net.catalog # <<>> THEN load_call.net.catalog
    ELSE IF load_call.pre_db.kind = "json"
    THEN [i \in DOMAIN load_call.pre_db.doc |->
             [key |-> load_call.pre_db.doc[i].key,
              val |-> [j \in DOMAIN load_call.pre_db.doc[i].val |->
                          [title |-> Get(load_call.pre_db.doc[i].val[j], "title"),
                           author |-> Get(load_call.pre_db.doc[i].val[j], "author"),
                           description |-> Get(load_call.pre_db.doc[i].val[j], "description"),
                           repository |-> Get(load_call.pre_db.doc[i].val[j], "repository"),
                           directory |-> Get(load_call.pre_db.doc[i].val[j], "directory")]]]]
    ELSE <<>>

\* the entries of the external-packages file, in file order
ExternalEntries ==
    IF ext_file.kind = "json" THEN Get(ext_file.doc, EXTERNAL_PACKAGES) ELSE <<>>

\* the last category of the returned catalog is the external one and holds the
\* entries of the file, one package per entry, in the order of the file
ExternalCategoryLast ==
    LET n == Len(load_call.packages)
    IN  /\ n > 0
        /\ load_call.packages[n].key = "External Packages"
        /\ Len(load_call.packages[n].val) = Len(ExternalEntries)
        /\ \A i \in DOMAIN ExternalEntries :
               /\ load_call.packages[n].val[i].title = Get(ExternalEntries[i], "title")
               /\ load_call.packages[n].val[i].repository
                      = Get(ExternalEntries[i], "repository")

\* C29: whenever the external-packages file exists and is non-empty, the catalog
\* returned by load_packages holds every category of the loaded catalog unchanged
\* and then the category "External Packages" with the entries of that file in
\* file order; the snapshot file never holds the external category.
ExternalMerge ==
    (Loaded /\ ~load_call.exited /\ ext_file.kind \in {"json", "malformed"}) =>
        /\ ExternalCategoryLast
        /\ SubSeq(load_call.packages, 1, Len(load_call.packages) - 1) = LoadedCatalog
        /\ db_file.kind = "json" => ~HasKey(db_file.doc, "External Packages")

(***************************************************************************)
(* Properties of install_dependencies.                                     *)
(***************************************************************************)
\* the place of a step in the fixed order
StepPlace(step) == CHOOSE i \in DOMAIN DepSteps : DepSteps[i] = step

\* a file of the set is the marker, whatever the case of its letters
MarkerIn(file_name, files) ==
    files \cap {file_name, Lower(file_name), Upper(file_name)} # {}

\* the steps whose marker file is there to be found when their turn comes
Due(dep) ==
    {s \in Range(DepSteps) :
        \/ s = "npm" /\ MarkerIn(PACKAGE_JSON, dep.markers)
        \/ s = "bundle" /\ MarkerIn(GEMFILE, dep.markers)
        \/ s = "make" /\ MarkerIn(MAKEFILE, dep.markers)
        \/ s = "cmake" /\ MarkerIn(CMAKELISTS, dep.markers)
        \/ s = "make_build" /\ MarkerIn(CMAKELISTS, dep.markers)
                             /\ MarkerIn(MAKEFILE, dep.build)}

ExitCode(dep, step) == dep.results[step].code

\* the steps run before the last one all exited zero
RanInOrder(dep, ran) ==
    /\ \A i \in DOMAIN ran : ran[i] \in Due(dep)
    /\ \A i, j \in DOMAIN ran : i < j => StepPlace(ran[i]) < StepPlace(ran[j])
    /\ \A i \in DOMAIN ran : i < Len(ran) => ExitCode(dep, ran[i]) = 0
    /\ \A s \in Due(dep) :
           (\A i \in DOMAIN ran : ran[i] # s) =>
               \E i \in DOMAIN ran :
                   StepPlace(ran[i]) < StepPlace(s) /\ ExitCode(dep, ran[i]) # 0

\* C30: install_dependencies attempts npm, bundle, make, cmake in that order, each
\* only if its marker file is present; a successful cmake is followed by make in
\* the build directory when a Makefile is found there; the first step that exits
\* non-zero ends the sequence with its error and no later step runs; the result
\* is the empty string only if every attempted step exited zero.
DependencyInstallOrder ==
    dep_call.called =>
        /\ RanInOrder(dep_call.dep, dep_call.ran)
        /\ \A i \in DOMAIN dep_call.ran :
               ExitCode(dep_call.dep, dep_call.ran[i]) # 0 =>
                   dep_call.error = dep_call.dep.results[dep_call.ran[i]].stderr
        /\ dep_call.error = NoText =>
               \A i \in DOMAIN dep_call.ran : ExitCode(dep_call.dep, dep_call.ran[i]) = 0

(***************************************************************************)
(* Properties of the tool and app checks.                                  *)
(***************************************************************************)
\* the step is a call of check_for_mmpm_updates that found a newer version
ToolCheckFoundNewer ==
    roots'.n = roots.n + 1 /\ roots'.last = "tool" /\ roots'.newer

\* every root entry the file held is held unchanged
SameRootEntries ==
    /\ upgrades_file'.kind = "json"
    /\ upgrades_file.kind = "json" =>
           \A r \in RootsIn(upgrades_file) :
               /\ HasKey(upgrades_file'.doc, r)
               /\ Get(upgrades_file'.doc, r) = Get(upgrades_file.doc, r)

RecordedToolUpgrade ==
    ToolCheckFoundNewer =>
        /\ upgrades_file'.kind = "json"
        /\ HasKey(upgrades_file'.doc, MMPM)
        /\ Get(upgrades_file'.doc, MMPM) = TRUE
        /\ SameRootEntries

\* C31: when check_for_mmpm_updates detects a newer tool version, the ledger file
\* afterwards is a well-formed document whose tool flag is true and whose per-root
\* entries (packages lists and app flags of every root) are as before the call.
RecordingToolUpgrade == [][RecordedToolUpgrade]_vars

\* the app check ran on a git-managed root
AppCheckedOnGit ==
    roots.last = "app" /\ roots.probe.root_exists /\ roots.probe.is_git

\* the app flag the file holds for the current root
AppFlag ==
    /\ upgrades_file.kind = "json"
    /\ HasKey(upgrades_file.doc, normpath(env_root))
    /\ Get(Get(upgrades_file.doc, normpath(env_root)), MAGICMIRROR) = TRUE

\* C32: after check_for_magicmirror_updates on a git-managed root, the ledger's app
\* flag for the current root is true exactly when the dry-run fetch exited with
\* code zero and produced non-empty output; a probe that exits non-zero never
\* sets the flag to true.
RecordingAppUpgrade ==
    AppCheckedOnGit =>
        (AppFlag <=> (roots.probe.fetch.code = 0 /\ roots.probe.fetch.stderr # NoText))

(***************************************************************************)
(* Properties of the scan: the catalog, duplicates.                        *)
(***************************************************************************)
\* C33: get_installed_packages does not modify the catalog it is given: after the
\* call every record of the catalog has the same directory value as before, and
\* only the records of the returned installed set carry the discovered directory.
ScanLeavesCatalog ==
    scan_out.done =>
        /\ Keys(scan_out.packages) = Keys(scan_in.packages)
        /\ \A i \in DOMAIN scan_in.packages :
               /\ Len(scan_out.packages[i].val) = Len(scan_in.packages[i].val)
               /\ \A j \in DOMAIN scan_in.packages[i].val :
                      scan_out.packages[i].val[j].directory
                          = scan_in.packages[i].val[j].directory

\* C38: for any catalog and any set of on-disk clones, also two clone directories
\* that share the same remote URL, each catalog record appears at most once in its
\* category's list in the result of get_installed_packages.
NoDuplicateInstalled ==
    scan_out.done =>
        \A i \in DOMAIN scan_out.installed :
            \A j, k \in DOMAIN scan_out.installed[i].val :
                (/\ scan_out.installed[i].val[j].title = scan_out.installed[i].val[k].title
                 /\ scan_out.installed[i].val[j].repository
                        = scan_out.installed[i].val[k].repository) => j = k

(***************************************************************************)
(* Properties of the upgrade: failures, flags.                             *)
(***************************************************************************)
\* the pending list of the current root as the running upgrade holds it
PendingInHand == Get(Get(upg.upgrades, LedgerRoot), PACKAGES)

\* another pass of the loop, for a title named twice, upgraded the package of pass i
UpgradedInAnotherPass(i) ==
    \E j \in DOMAIN upg.log : upg.log[j].package = upg.log[i].package /\ ~upg.log[j].failed

\* C34: a package whose git pull or dependency step exits with a non-zero code is
\* treated as a failed upgrade whatever its error output, also when it is empty:
\* it stays in the pending list of the current root and never counts as upgraded.
FailFastOnExitCode ==
    \A i \in DOMAIN upg.log :
        (upg.log[i].failed /\ ~UpgradedInAnotherPass(i)) =>
            /\ upg.log[i].package \in Range(PendingInHand)
            /\ upg.pc = "done" =>
                   /\ upgrades_file.kind = "json"
                   /\ serialize_full(upg.log[i].package) \in Range(PersistedPending)

\* the flags as upgrade_available read them: in hand until the apps are upgraded,
\* recorded after
AppFlagRead ==
    IF upg.pc = "done" THEN upg.apps.pre_mm
    ELSE Get(Get(upg.upgrades, LedgerRoot), MAGICMIRROR) = TRUE

ToolFlagRead ==
    IF upg.pc = "done" THEN upg.apps.pre_mmpm ELSE Get(upg.upgrades, MMPM) = TRUE

\* C37: upgrade_available invokes the upgrade of the application (of the tool) only
\* if the app flag of the current root (the tool flag) was true when the ledger
\* was read; with no pending flag the user is not prompted for it and, under
\* assume_yes, it is not run.
UpgradesOnlyWhenFlagged ==
    upg.pc \in {"packages", "apps", "done"} =>
        /\ (upg.ask_mm \/ upg.magicmirror) => AppFlagRead
        /\ (upg.ask_mmpm \/ upg.mmpm) => ToolFlagRead

(***************************************************************************)
(* Properties of two invocations on one ledger file.                       *)
(***************************************************************************)
\* the entry a file holds for a root, if any
RootEntry(file, root) ==
    IF file.kind = "json" /\ HasKey(file.doc, root) THEN <<Get(file.doc, root)>> ELSE <<>>

OtherProc(p) == CHOOSE q \in Procs : q # p

\* C35: nothing serializes the writes of two invocations that run under different
\* roots: the invocation that wrote last wrote the entry of the other root as it
\* had read it, whatever the other invocation recorded in between, so that an
\* interleaving in which both read before either writes loses one update.
UnguardedLedgerRace ==
    \A p \in Procs :
        (race.last = p /\ race.procs[p].pc = "done") =>
            RootEntry(upgrades_file, ProcRoot(OtherProc(p)))
                = RootEntry(race.procs[p].read, ProcRoot(OtherProc(p)))

\* both invocations read before either wrote, both ended, and what the first
\* writer recorded for its root is not in the file
LostUpdate ==
    \E p \in Procs :
        /\ race.procs[p].pc = "done" /\ race.procs[OtherProc(p)].pc = "done"
        /\ race.last = OtherProc(p)
        /\ race.procs[p].read = race.procs[OtherProc(p)].read
        /\ RootEntry(race.procs[p].wrote, ProcRoot(p))
               # RootEntry(race.procs[p].read, ProcRoot(p))
        /\ RootEntry(upgrades_file, ProcRoot(p))
               # RootEntry(race.procs[p].wrote, ProcRoot(p))
        /\ RootEntry(upgrades_file, ProcRoot(p)) = RootEntry(race.procs[p].read, ProcRoot(p))

(***************************************************************************)
(* Properties of the websocket bridge.                                     *)
(***************************************************************************)
\* C36: in each of the three bridge operations, once the terminal event is
\* received the client is disconnected, for every payload including an empty or
\* missing one; a failure to connect is reported and does not end the process.
BridgeAlwaysDisconnects ==
    /\ bridge.pc = "handled" => ~bridge.connected
    /\ bridge.pc \in {"returned", "raised"} =>
           /\ bridge.refused \/ bridge.warned
           /\ ~bridge.exited
           /\ bridge.pc = "returned"

(***************************************************************************)
(* Properties of the package difference.                                   *)
(***************************************************************************)
\* what there is to exclude from a category: nothing when exclude does not hold it
Excluded(category) == DefaultGet(diff_call.exclude, category)

\* C40: get_difference_of_packages(original, exclude) returns for every category of
\* original exactly the packages of original[category] that are not in
\* exclude[category], in their original order; a category that exclude does not
\* contain is treated as having nothing to exclude and causes no failure.
PackageDifference ==
    diff_call.done =>
        /\ ~diff_call.raised
        /\ \A c \in Range(Keys(diff_call.original)) :
               LET orig == Get(diff_call.original, c)
               IN  DefaultGet(diff_call.difference, c)
                       = SelectIdx(orig, {i \in DOMAIN orig :
                                             \A j \in DOMAIN Excluded(c) :
                                                 Excluded(c)[j] # orig[i]}, 1)
        /\ \A c \in Range(Keys(diff_call.difference)) : HasKey(diff_call.original, c)

====
